---- MODULE Spec2Model ----
(***************************************************************************)
(* NoteType: the interactive terminal session (cmd/tui.go), the template   *)
(* engine (cmd/templates.go), the tag indexer (cmd/tags.go) and the theme  *)
(* store, as a state machine over the session model and the disk.          *)
(*                                                                         *)
(* Text is a sequence of tokens.  A token is a one-character string, or a  *)
(* chunk of literal text that holds none of the characters the program     *)
(* inspects (braces, '#', digits of a generated name).                     *)
(***************************************************************************)
EXTENDS Integers, Sequences, FiniteSets, TLC

(* ------------------------------ bounds --------------------------------- *)

\* last instant of the clock (seconds after ClockBase)
MaxClock == 1
\* longest text the user types into the editor
MaxLen == 1
\* most files the notes directory holds
MaxNotes == 2
\* furthest cursor position the user visits in the templates and themes lists
MaxScroll == 0

(* --------------------------- text helpers ------------------------------ *)

Range(s) == {s[i] : i \in 1..Len(s)}

DigitChars == <<"0", "1", "2", "3", "4", "5", "6", "7", "8", "9">>

RECURSIVE Digits(_)
\* fmt's %d of a non-negative integer
Digits(n) == IF n < 10 THEN <<DigitChars[n + 1]>>
             ELSE Append(Digits(n \div 10), DigitChars[(n % 10) + 1])

Pad2(n) == <<DigitChars[((n \div 10) % 10) + 1], DigitChars[(n % 10) + 1]>>

Pad4(n) == Pad2(n \div 100) \o Pad2(n % 100)

\* byte order of the tokens that occur in file names (".md" sorts as '.')
ByteOrder == <<"-", ".md", "0", "1", "2", "3", "4", "5", "6", "7", "8", "9", "_",
               "a", "b", "c", "d", "e", "f", "g", "h", "i", "j", "k", "l", "m",
               "n", "o", "p", "q", "r", "s", "t", "u", "v", "w", "x", "y", "z">>

ByteRank(c) == CHOOSE i \in 1..Len(ByteOrder) : ByteOrder[i] = c

RECURSIVE StrLess(_, _)
\* s < t, as Go compares strings
StrLess(s, t) ==
    IF t = <<>> THEN FALSE
    ELSE IF s = <<>> THEN TRUE
    ELSE IF Head(s) = Head(t) THEN StrLess(Tail(s), Tail(t))
    ELSE ByteRank(Head(s)) < ByteRank(Head(t))

RECURSIVE SortStrings(_)
\* the elements of a finite set of names, ascending
SortStrings(S) ==
    IF S = {} THEN <<>>
    ELSE LET m == CHOOSE x \in S : \A y \in S \ {x} : StrLess(x, y)
         IN  <<m>> \o SortStrings(S \ {m})

HasPrefixAt(s, i, p) ==
    /\ i + Len(p) - 1 <= Len(s)
    /\ \A j \in 1..Len(p) : s[i + j - 1] = p[j]

RECURSIVE ReplaceFrom(_, _, _, _)
ReplaceFrom(s, i, old, new) ==
    IF i > Len(s) THEN <<>>
    ELSE IF HasPrefixAt(s, i, old)
         THEN new \o ReplaceFrom(s, i + Len(old), old, new)
         ELSE <<s[i]>> \o ReplaceFrom(s, i + 1, old, new)

\* strings.ReplaceAll for a non-empty old: leftmost, non-overlapping
ReplaceAll(s, old, new) == ReplaceFrom(s, 1, old, new)

\* strings.TrimSuffix(base, ".md")
TrimSuffixMd(base) ==
    IF Len(base) > 0 /\ base[Len(base)] = ".md"
    THEN SubSeq(base, 1, Len(base) - 1)
    ELSE base

(* ------------------------------ the clock ------------------------------ *)

\* time.Now().Unix() at clock 0: 2025-12-31 23:59:59 UTC, a Wednesday
ClockBase == 1767225599

\* time.Now() at the given clock value, in the fields the formats print
TimeAt(c) ==
    IF c = 0
    THEN [unix |-> ClockBase, year |-> 2025, month |-> 12, day |-> 31,
          hour |-> 23, minute |-> 59, monthName |-> "December",
          weekday |-> "Wednesday"]
    ELSE [unix |-> ClockBase + c, year |-> 2026, month |-> 1, day |-> 1,
          hour |-> 0, minute |-> (c - 1) \div 60, monthName |-> "January",
          weekday |-> "Thursday"]

\* now.Format("2006-01-02")
FormatDate(t) == Pad4(t.year) \o <<"-">> \o Pad2(t.month) \o <<"-">> \o Pad2(t.day)

\* now.Format("15:04")
FormatTime(t) == Pad2(t.hour) \o <<":">> \o Pad2(t.minute)

\* now.Format("2006-01-02 15:04")
FormatDateTime(t) == FormatDate(t) \o <<" ">> \o FormatTime(t)

getTodayFilename(c) == FormatDate(TimeAt(c))

(* ---------------------------- templates ------------------------------- *)

K_date == <<"d", "a", "t", "e">>
K_datetime == <<"d", "a", "t", "e", "t", "i", "m", "e">>
K_time == <<"t", "i", "m", "e">>
K_title == <<"t", "i", "t", "l", "e">>
K_year == <<"y", "e", "a", "r">>
K_month == <<"m", "o", "n", "t", "h">>
K_day == <<"d", "a", "y">>

\* the keys of the variables map built by createFromTemplate and applyTemplate
VarKeys == {K_date, K_datetime, K_time, K_title, K_year, K_month, K_day}

\* "{{" + key + "}}"
Placeholder(key) == <<"{", "{">> \o key \o <<"}", "}">>

T_daily == <<"d", "a", "i", "l", "y">>

Body_daily ==
    <<"# Daily Journal - ",
       "{", "{", "d", "a", "t", "e", "}", "}",
       "[daily: lines 16-48, Morning/Evening sections]",
       "\n---\n",
       "#", "j", "o", "u", "r", "n", "a", "l", " ", "#", "d", "a", "i", "l", "y", "\n">>

T_meeting == <<"m", "e", "e", "t", "i", "n", "g">>

Body_meeting ==
    <<"# Meeting Notes - ",
       "{", "{", "d", "a", "t", "e", "}", "}",
       "\n\n**Date:** ",
       "{", "{", "d", "a", "t", "e", "t", "i", "m", "e", "}", "}",
       "[meeting: lines 54-77, attendees, agenda, action items]",
       "\n---\n",
       "#", "m", "e", "e", "t", "i", "n", "g", " ", "#", "w", "o", "r", "k", "\n">>

T_project == <<"p", "r", "o", "j", "e", "c", "t">>

Body_project ==
    <<"# Project: ",
       "{", "{", "t", "i", "t", "l", "e", "}", "}",
       "\n\n**Start Date:** ",
       "{", "{", "d", "a", "t", "e", "}", "}",
       "[project: lines 83-110, status, goals, milestones]",
       "\n---\n",
       "#", "p", "r", "o", "j", "e", "c", "t", " ", "#", "p", "l", "a", "n", "n", "i", "n", "g", "\n">>

T_weekly == <<"w", "e", "e", "k", "l", "y">>

Body_weekly ==
    <<"# Weekly Review - Week of ",
       "{", "{", "d", "a", "t", "e", "}", "}",
       "[weekly: lines 114-138, wins, challenges, next week]",
       "\n---\n",
       "#", "w", "e", "e", "k", "l", "y", "-", "r", "e", "v", "i", "e", "w", " ", "#", "r", "e", "f", "l", "e", "c", "t", "i", "o", "n", "\n">>

T_idea == <<"i", "d", "e", "a">>

Body_idea ==
    <<"# Idea: ",
       "{", "{", "t", "i", "t", "l", "e", "}", "}",
       "\n\n**Date:** ",
       "{", "{", "d", "a", "t", "e", "}", "}",
       "[idea: lines 144-163, problem, solution, next steps]",
       "\n---\n",
       "#", "i", "d", "e", "a", "s", " ", "#", "b", "r", "a", "i", "n", "s", "t", "o", "r", "m", "\n">>

T_grateful == <<"g", "r", "a", "t", "e", "f", "u", "l">>

Body_grateful ==
    <<"# Gratitude - ",
       "{", "{", "d", "a", "t", "e", "}", "}",
       "[grateful: lines 167-180, three things, reflection]",
       "\n---\n",
       "#", "g", "r", "a", "t", "i", "t", "u", "d", "e", " ", "#", "r", "e", "f", "l", "e", "c", "t", "i", "o", "n", "\n">>

\* the names loadTemplates lists, in its order
TemplateNames == <<T_daily, T_meeting, T_project, T_weekly, T_idea, T_grateful>>

\* the built-in catalog: name -> body
builtInTemplates ==
    [n \in Range(TemplateNames) |->
        CASE n = T_daily -> Body_daily
          [] n = T_meeting -> Body_meeting
          [] n = T_project -> Body_project
          [] n = T_weekly -> Body_weekly
          [] n = T_idea -> Body_idea
          [] n = T_grateful -> Body_grateful]

\* a faulty substituteVariables: it returns after the first variable
substituteVariables_firstOnly(content, vars, order) ==
    IF order = <<>> THEN content
    ELSE ReplaceAll(content, Placeholder(Head(order)), vars[Head(order)])

RECURSIVE substituteVariables(_, _, _)
\* one strings.ReplaceAll per variable, in the order the map iteration visits
\* the keys (order: a sequence enumerating the keys of vars)
substituteVariables(content, vars, order) ==
    IF order = <<>> THEN content
    ELSE substituteVariables(
             ReplaceAll(content, Placeholder(Head(order)), vars[Head(order)]),
             vars, Tail(order))

\* every order in which a range over a map with these keys may visit them
RECURSIVE Orders(_)
Orders(K) ==
    IF K = {} THEN {<<>>}
    ELSE UNION {{<<k>> \o o : o \in Orders(K \ {k})} : k \in K}

\* the variables map of createFromTemplate / applyTemplate for a title
TemplateVars(c, title) ==
    LET now == TimeAt(c)
    IN  [k \in VarKeys |->
            CASE k = K_date -> FormatDate(now)
              [] k = K_datetime -> FormatDateTime(now)
              [] k = K_time -> FormatTime(now)
              [] k = K_title -> title
              [] k = K_year -> Pad4(now.year)
              [] k = K_month -> <<now.monthName>>
              [] k = K_day -> <<now.weekday>>]

(* ------------------------------ the disk ------------------------------- *)

VARIABLES
    files,          \* path -> content, for every regular file that exists
    journalDir,     \* whether the journal directory exists
    themeCfg,       \* the theme config file: [exists, data]
    clock           \* the instant, in seconds after ClockBase

\* filename + ".md", in the working directory
NotePath(name) == [dir |-> "cwd", base |-> name \o <<".md">>]

\* filepath.Join(getJournalDir(), filename + ".md")
JournalPath(name) == [dir |-> "journal", base |-> name \o <<".md">>]

\* os.ReadFile succeeds: the file exists and the read is not failing (io)
CanRead(fs, p, io) == io /\ p \in DOMAIN fs

\* os.WriteFile(p, content, 0644)
WriteFile(fs, p, content) ==
    [q \in DOMAIN fs \cup {p} |-> IF q = p THEN content ELSE fs[q]]

\* os.Remove(p)
RemoveFile(fs, p) == [q \in DOMAIN fs \ {p} |-> fs[q]]

\* filepath.Glob(dir/"*.md"): the matching paths, sorted by name
Glob(fs, dir) ==
    LET bases == {p.base : p \in {q \in DOMAIN fs :
                      q.dir = dir /\ Len(q.base) > 0 /\ q.base[Len(q.base)] = ".md"}}
        sorted == SortStrings(bases)
    IN  [i \in 1..Len(sorted) |-> [dir |-> dir, base |-> sorted[i]]]

(* ------------------------------- tags ---------------------------------- *)

UpperLetters == <<"A", "B", "C", "D", "E", "F", "G", "H", "I", "J", "K", "L", "M",
                  "N", "O", "P", "Q", "R", "S", "T", "U", "V", "W", "X", "Y", "Z">>

LowerLetters == <<"a", "b", "c", "d", "e", "f", "g", "h", "i", "j", "k", "l", "m",
                  "n", "o", "p", "q", "r", "s", "t", "u", "v", "w", "x", "y", "z">>

\* \w of the regular expression
IsWordChar(c) ==
    c \in Range(UpperLetters) \cup Range(LowerLetters) \cup Range(DigitChars) \cup {"_"}

\* [\w-]
IsTagChar(c) == IsWordChar(c) \/ c = "-"

ToLowerChar(c) ==
    IF c \in Range(UpperLetters)
    THEN LowerLetters[CHOOSE i \in 1..Len(UpperLetters) : UpperLetters[i] = c]
    ELSE c

\* strings.ToLower
ToLower(s) == [i \in 1..Len(s) |-> ToLowerChar(s[i])]

RECURSIVE TagRunEnd(_, _)
\* the index after the longest run of [\w-] that starts at i
TagRunEnd(s, i) == IF i <= Len(s) /\ IsTagChar(s[i]) THEN TagRunEnd(s, i + 1) ELSE i

\* a faulty start of a match: a '#' before the '#' is accepted
TagHashAt_noHeading(s, i) ==
    IF i = 1 /\ i + 1 <= Len(s) /\ s[i] = "#" /\ IsTagChar(s[i + 1]) THEN i
    ELSE IF /\ i + 2 <= Len(s)
            /\ ~IsWordChar(s[i])
            /\ s[i + 1] = "#" /\ IsTagChar(s[i + 2]) THEN i + 1
    ELSE 0

\* where '#' must stand for a match of (?:^|[^#\w])#([\w-]+) that begins at i,
\* or 0 when no match begins at i
TagHashAt(s, i) ==
    IF i = 1 /\ i + 1 <= Len(s) /\ s[i] = "#" /\ IsTagChar(s[i + 1]) THEN i
    ELSE IF /\ i + 2 <= Len(s)
            /\ s[i] # "#" /\ ~IsWordChar(s[i])
            /\ s[i + 1] = "#" /\ IsTagChar(s[i + 2]) THEN i + 1
    ELSE 0

RECURSIVE TagMatches(_, _)
\* re.FindAllStringSubmatch(content, -1): the captured groups of the leftmost,
\* non-overlapping matches found scanning from i
TagMatches(s, i) ==
    IF i > Len(s) THEN {}
    ELSE LET h == TagHashAt(s, i)
         IN  IF h = 0 THEN TagMatches(s, i + 1)
             ELSE LET e == TagRunEnd(s, h + 1)
                  IN  {SubSeq(s, h + 1, e - 1)} \cup TagMatches(s, e)

\* the distinct lowercased tags of a content, sorted
extractTags(content) == SortStrings({ToLower(m) : m \in TagMatches(content, 1)})

\* the files the two scans read, journal entries first, skipping what cannot be
\* read (bad: the paths whose read fails)
ScannedFiles(fs, jdir, bad) ==
    LET js == IF jdir THEN Glob(fs, "journal") ELSE <<>>
        all == js \o Glob(fs, "cwd")
    IN  SelectSeq(all, LAMBDA p : p \notin bad)

\* a faulty getAllTags: the scan of the journal entries is missing
getAllTags_notesOnly(fs, jdir, bad) ==
    LET scanned == SelectSeq(Glob(fs, "cwd"), LAMBDA p : p \notin bad)
        tagsOf(i) == Range(extractTags(fs[scanned[i]]))
        allTags == UNION {tagsOf(i) : i \in 1..Len(scanned)}
    IN  [t \in allTags |-> Cardinality({i \in 1..Len(scanned) : t \in tagsOf(i)})]

\* tag -> number of scanned files whose tags hold it
getAllTags(fs, jdir, bad) ==
    LET scanned == ScannedFiles(fs, jdir, bad)
        tagsOf(i) == Range(extractTags(fs[scanned[i]]))
        allTags == UNION {tagsOf(i) : i \in 1..Len(scanned)}
    IN  [t \in allTags |-> Cardinality({i \in 1..Len(scanned) : t \in tagsOf(i)})]

\* a faulty findFilesByTag: the tag is compared as given, not lowercased
findFilesByTag_caseSensitive(tag, fs, jdir, bad) ==
    SelectSeq(ScannedFiles(fs, jdir, bad),
              LAMBDA p : tag \in Range(extractTags(fs[p])))

\* a faulty findFilesByTag: the scan of the journal entries is missing
findFilesByTag_notesOnly(tag, fs, jdir, bad) ==
    SelectSeq(SelectSeq(Glob(fs, "cwd"), LAMBDA p : p \notin bad),
              LAMBDA p : ToLower(tag) \in Range(extractTags(fs[p])))

\* the scanned files whose tags hold the lowercased tag, in scan order
findFilesByTag(tag, fs, jdir, bad) ==
    SelectSeq(ScannedFiles(fs, jdir, bad),
              LAMBDA p : ToLower(tag) \in Range(extractTags(fs[p])))

(* ------------------------------ themes --------------------------------- *)

\* the names loadThemes lists, in its order
ThemeNames == <<"violet", "dracula", "nord", "gruvbox", "solarized", "monokai",
                "tokyo", "catppuccin">>

\* the catalog: name -> Theme (the display name and the primary colour stand
\* for the ten colour slots)
themes ==
    [n \in Range(ThemeNames) |->
        CASE n = "violet" -> [Name |-> "Violet (Default)", Primary |-> "#7C3AED"]
          [] n = "dracula" -> [Name |-> "Dracula", Primary |-> "#BD93F9"]
          [] n = "nord" -> [Name |-> "Nord", Primary |-> "#5E81AC"]
          [] n = "gruvbox" -> [Name |-> "Gruvbox Dark", Primary |-> "#B16286"]
          [] n = "solarized" -> [Name |-> "Solarized Dark", Primary |-> "#268BD2"]
          [] n = "monokai" -> [Name |-> "Monokai", Primary |-> "#F92672"]
          [] n = "tokyo" -> [Name |-> "Tokyo Night", Primary |-> "#7AA2F7"]
          [] n = "catppuccin" -> [Name |-> "Catppuccin", Primary |-> "#CBA6F7"]]

\* json.Marshal of a string
JsonMarshal(name) == <<"\"", name, "\"">>

\* the theme loadTheme returns for a config file
loadTheme(cfg) ==
    IF ~cfg.exists THEN themes["violet"]
    ELSE IF ~(Len(cfg.data) = 3 /\ cfg.data[1] = "\"" /\ cfg.data[3] = "\"")
         THEN themes["violet"]
    ELSE IF cfg.data[2] \in DOMAIN themes THEN themes[cfg.data[2]]
    ELSE themes["violet"]

\* a faulty saveTheme: the name is written as it is, not as JSON
saveTheme_raw(themeName) == [exists |-> TRUE, data |-> <<themeName>>]

\* the config file after a saveTheme whose MkdirAll and WriteFile succeed
saveTheme(themeName) == [exists |-> TRUE, data |-> JsonMarshal(themeName)]

(* ----------------------------- the session ----------------------------- *)

VARIABLES
    mode,           \* model.mode
    width, height,  \* model.width, model.height
    menuList, notesList, journalsList, tagsList, templatesList, themesList,
    editor,         \* the editor's text (textarea value)
    viewer,         \* the viewer's content
    statusMsg, currentNote, isJournal, showHelp,
    styles,         \* the theme the package-level styles were last built from
    running,        \* FALSE once Update has returned tea.Quit
    last,           \* the event handled last: [ev, io], and the key for EditorKey
    call            \* a direct call of one function of the program: its
                    \* arguments, its result, and whether it has returned

disk == <<files, journalDir, themeCfg>>

lists == <<menuList, notesList, journalsList, tagsList, templatesList, themesList>>

vars == <<files, journalDir, themeCfg, clock, mode, width, height, menuList,
          notesList, journalsList, tagsList, templatesList, themesList, editor,
          viewer, statusMsg, currentNote, isJournal, showHelp, styles, running,
          last, call>>

\* the titles of the menu items, in menu order
MenuItems == <<"Today's Journal", "All Journals", "Notes", "New Note", "Templates",
               "Tags", "Search", "Themes", "Export", "Settings">>

\* list.New(items, ...) and the Title set on it: the cursor starts on the first item
NewList(items, title) == [items |-> items, idx |-> 0, title |-> title]

\* the zero list.Model of a model field no list was assigned to yet
NoList == [items |-> <<>>, idx |-> 0, title |-> <<>>]

\* list.Model.SelectedItem() is not nil
HasSelection(l) == l.idx < Len(l.items)

SelectedItem(l) == l.items[l.idx + 1]

\* list.Model.Update for a key: the cursor keys move the cursor inside the items
ListCursor(l, k) ==
    IF k = "down" /\ l.idx + 1 < Len(l.items) THEN [l EXCEPT !.idx = l.idx + 1]
    ELSE IF k = "up" /\ l.idx > 0 THEN [l EXCEPT !.idx = l.idx - 1]
    ELSE l

\* the keys on which list.Model.Update returns tea.Quit (the list component's
\* default key map binds Quit to "q" and "esc")
ListQuitKeys == {"q", "esc"}

\* noteItem{filename: name, title: name, ...} for a path the glob returned
NoteItemOf(p) ==
    [filename |-> TrimSuffixMd(p.base), title |-> TrimSuffixMd(p.base)]

NoteItems(paths) == [i \in 1..Len(paths) |-> NoteItemOf(paths[i])]

ErrText == "<error text>"

Event(ev, io) == [ev |-> ev, io |-> io]

\* no direct call yet
NoCall == [content |-> <<>>, vars |-> <<>>, order |-> <<>>, result |-> <<>>,
           done |-> FALSE]

Init ==
    /\ files = (NotePath(<<"a">>) :> <<"#", "w">>)
    /\ journalDir = FALSE
    /\ themeCfg = [exists |-> FALSE, data |-> <<>>]
    /\ clock = 0
    /\ mode = "menuView"
    /\ width = 0
    /\ height = 0
    /\ menuList = NewList(MenuItems, <<"NoteType - Main Menu">>)
    /\ notesList = NoList
    /\ journalsList = NoList
    /\ tagsList = NoList
    /\ templatesList = NoList
    /\ themesList = NoList
    /\ editor = <<>>
    /\ viewer = <<>>
    /\ statusMsg = <<"Welcome to NoteType! Press ? for help">>
    /\ currentNote = <<>>
    /\ isJournal = FALSE
    /\ showHelp = FALSE
    /\ styles = loadTheme(themeCfg)
    /\ running = TRUE
    /\ last = Event("init", "none")
    /\ call = NoCall

(* --- the functions Update dispatches to: each sets the model's fields --- *)

\* a faulty openTodayJournal: the editor is never preloaded
openTodayJournal_blank(io) ==
    /\ mode' = "editorView"
    /\ isJournal' = TRUE
    /\ currentNote' = getTodayFilename(clock)
    /\ statusMsg' = <<"Writing today's journal">>
    /\ editor' = <<>>
    /\ UNCHANGED <<width, height, lists, viewer, showHelp>>

openTodayJournal(io) ==
    LET today == getTodayFilename(clock)
        path == JournalPath(today)
    IN  /\ mode' = "editorView"
        /\ isJournal' = TRUE
        /\ currentNote' = today
        /\ statusMsg' = <<"Writing today's journal">>
        /\ editor' = IF CanRead(files, path, io = "none") THEN files[path] ELSE <<>>
        /\ UNCHANGED <<width, height, lists, viewer, showHelp>>

\* info, _ := os.Stat(file); info.ModTime(): the Stat of a path in gone fails,
\* info is nil and the method call on it panics
StatPanics(paths, gone) == \E i \in 1..Len(paths) : paths[i] \in gone

\* the handler panicked: Update never returns, the program ends
Panicked ==
    /\ running' = FALSE
    /\ UNCHANGED <<mode, width, height, lists, editor, viewer, statusMsg, currentNote,
                   isJournal, showHelp>>

\* the list built from the journal directory as the disk fs holds it (gone:
\* the paths the glob returned whose Stat fails)
loadJournals(fs, gone) ==
    LET found == Glob(fs, "journal")
        items == NoteItems(found)
    IN  IF StatPanics(found, gone) THEN Panicked
        ELSE /\ journalsList' = NewList(items, <<"Journal Entries">>)
             /\ mode' = "listView"
             /\ isJournal' = TRUE
             /\ statusMsg' = <<"Found ">> \o Digits(Len(items))
                                 \o <<" journal entries">>
             /\ UNCHANGED <<width, height, menuList, notesList, tagsList,
                            templatesList, themesList, editor, viewer, currentNote,
                            showHelp, running>>

\* a faulty loadNotes: the new list keeps the cursor of the old one
loadNotes_keepsCursor(fs, gone) ==
    LET found == Glob(fs, "cwd")
        items == NoteItems(found)
    IN  IF StatPanics(found, gone) THEN Panicked
        ELSE /\ notesList' = [NewList(items, <<"Notes">>) EXCEPT !.idx = notesList.idx]
             /\ mode' = "listView"
             /\ isJournal' = FALSE
             /\ statusMsg' = <<"Found ">> \o Digits(Len(items)) \o <<" notes">>
             /\ UNCHANGED <<width, height, menuList, journalsList, tagsList,
                            templatesList, themesList, editor, viewer, currentNote,
                            showHelp, running>>

\* the list built from the working directory as the disk fs holds it
\* a faulty loadNotes: a notes list built on an earlier visit is shown again
loadNotes_retained(fs, gone) ==
    LET found == Glob(fs, "cwd")
        items == NoteItems(found)
    IN  IF StatPanics(found, gone) THEN Panicked
        ELSE /\ notesList' = IF notesList = NoList THEN NewList(items, <<"Notes">>)
                             ELSE [notesList EXCEPT !.idx = 0]
             /\ mode' = "listView"
             /\ isJournal' = FALSE
             /\ statusMsg' = <<"Found ">> \o Digits(Len(items)) \o <<" notes">>
             /\ UNCHANGED <<width, height, menuList, journalsList, tagsList,
                            templatesList, themesList, editor, viewer, currentNote,
                            showHelp, running>>

loadNotes(fs, gone) ==
    LET found == Glob(fs, "cwd")
        items == NoteItems(found)
    IN  IF StatPanics(found, gone) THEN Panicked
        ELSE /\ notesList' = NewList(items, <<"Notes">>)
             /\ mode' = "listView"
             /\ isJournal' = FALSE
             /\ statusMsg' = <<"Found ">> \o Digits(Len(items)) \o <<" notes">>
             /\ UNCHANGED <<width, height, menuList, journalsList, tagsList,
                            templatesList, themesList, editor, viewer, currentNote,
                            showHelp, running>>

\* a faulty createNewNote: the collection of the item edited before is kept
createNewNote_keepsJournal ==
    /\ mode' = "editorView"
    /\ currentNote' = <<>>
    /\ editor' = <<>>
    /\ statusMsg' = <<"Creating new note">>
    /\ UNCHANGED <<width, height, lists, viewer, showHelp, isJournal>>

createNewNote ==
    /\ mode' = "editorView"
    /\ isJournal' = FALSE
    /\ currentNote' = <<>>
    /\ editor' = <<>>
    /\ statusMsg' = <<"Creating new note">>
    /\ UNCHANGED <<width, height, lists, viewer, showHelp>>

createNewEntry(io) == IF isJournal THEN openTodayJournal(io) ELSE createNewNote

loadTemplates ==
    LET items == [i \in 1..Len(TemplateNames) |-> [name |-> TemplateNames[i]]]
    IN  /\ templatesList' = NewList(items, <<"Templates - Press Enter to use">>)
        /\ mode' = "templatesView"
        /\ statusMsg' = Digits(Len(items)) \o <<" templates available">>
        /\ UNCHANGED <<width, height, menuList, notesList, journalsList, tagsList,
                       themesList, editor, viewer, currentNote, isJournal, showHelp>>

RECURSIVE SortTags_byTagOnly(_)
\* the (tag, count) pairs in tag order, whatever their counts
SortTags_byTagOnly(counts) ==
    IF DOMAIN counts = {} THEN <<>>
    ELSE LET D == DOMAIN counts
             m == CHOOSE t \in D : \A u \in D \ {t} : StrLess(t, u)
         IN  <<[tag |-> m, count |-> counts[m]]>>
                 \o SortTags_byTagOnly([u \in D \ {m} |-> counts[u]])

RECURSIVE SortTags(_)
\* sort.Slice of the (tag, count) pairs: count descending, then tag ascending
SortTags(counts) ==
    IF DOMAIN counts = {} THEN <<>>
    ELSE LET D == DOMAIN counts
             m == CHOOSE t \in D : \A u \in D \ {t} :
                      \/ counts[t] > counts[u]
                      \/ counts[t] = counts[u] /\ StrLess(t, u)
         IN  <<[tag |-> m, count |-> counts[m]]>>
                 \o SortTags([u \in D \ {m} |-> counts[u]])

loadTags(bad) ==
    LET tagCounts == getAllTags(files, journalDir, bad)
        items == SortTags(tagCounts)
    IN  IF DOMAIN tagCounts = {}
        THEN /\ statusMsg' = <<"No tags found. Add #tags to your notes!">>
             /\ UNCHANGED <<mode, width, height, lists, editor, viewer, currentNote,
                            isJournal, showHelp>>
        ELSE /\ tagsList' = NewList(items, <<"All Tags - Press Enter to filter">>)
             /\ mode' = "tagsView"
             /\ statusMsg' = <<"Found ">> \o Digits(Len(items)) \o <<" tags">>
             /\ UNCHANGED <<width, height, menuList, notesList, journalsList,
                            templatesList, themesList, editor, viewer, currentNote,
                            isJournal, showHelp>>

showEntriesWithTag(tag, bad, gone) ==
    LET found == findFilesByTag(tag, files, journalDir, bad)
        items == NoteItems(found)
    IN  IF Len(found) = 0
        THEN /\ statusMsg' = <<"No entries found with #">> \o tag
             /\ UNCHANGED <<mode, width, height, lists, editor, viewer, currentNote,
                            isJournal, showHelp, running>>
        ELSE IF StatPanics(found, gone) THEN Panicked
        ELSE /\ notesList' = NewList(items, <<"Entries tagged with #">> \o tag)
             /\ mode' = "listView"
             /\ isJournal' = FALSE
             /\ statusMsg' = <<"Found ">> \o Digits(Len(items))
                                 \o <<" entries with #">> \o tag
             /\ UNCHANGED <<width, height, menuList, journalsList, tagsList,
                            templatesList, themesList, editor, viewer, currentNote,
                            showHelp, running>>

\* the orders in which the range over the template variables is taken: the
\* rotations of the sorted keys, and the reverse
VarOrders ==
    LET base == SortStrings(VarKeys)
        n == Len(base)
        rot(r) == [i \in 1..n |-> base[((i + r - 1) % n) + 1]]
    IN  {rot(r) : r \in 0..(n - 1)} \cup {[i \in 1..n |-> base[n + 1 - i]]}

\* substituteVariables(templateContent, vars) in createFromTemplate, tabulated:
\* for every built-in template, every instant and every iteration order
RenderedTemplates ==
    [n \in Range(TemplateNames) |-> [c \in 0..MaxClock |-> [o \in VarOrders |->
        substituteVariables(builtInTemplates[n], TemplateVars(c, <<"New Entry">>), o)]]]

\* a faulty createFromTemplate: no id is bound to the new entry
createFromTemplate_unbound(templateName, order) ==
    IF templateName \notin DOMAIN builtInTemplates
    THEN /\ statusMsg' = <<"Template not found">>
         /\ UNCHANGED <<mode, width, height, lists, editor, viewer, currentNote,
                        isJournal, showHelp>>
    ELSE LET finalContent == RenderedTemplates[templateName][clock][order]
         IN  /\ mode' = "editorView"
             /\ isJournal' = FALSE
             /\ currentNote' = <<>>
             /\ editor' = finalContent
             /\ statusMsg' = <<"Using ">> \o templateName
                                 \o <<" template - Edit and save with Ctrl+S">>
             /\ UNCHANGED <<width, height, lists, viewer, showHelp>>

createFromTemplate(templateName, order) ==
    IF templateName \notin DOMAIN builtInTemplates
    THEN /\ statusMsg' = <<"Template not found">>
         /\ UNCHANGED <<mode, width, height, lists, editor, viewer, currentNote,
                        isJournal, showHelp>>
    ELSE LET finalContent == RenderedTemplates[templateName][clock][order]
         IN  /\ mode' = "editorView"
             /\ isJournal' = FALSE
             /\ currentNote' = templateName \o <<"-">> \o Digits(TimeAt(clock).unix)
             /\ editor' = finalContent
             /\ statusMsg' = <<"Using ">> \o templateName
                                 \o <<" template - Edit and save with Ctrl+S">>
             /\ UNCHANGED <<width, height, lists, viewer, showHelp>>

loadThemes ==
    LET currentTheme == loadTheme(themeCfg)
        items == [i \in 1..Len(ThemeNames) |->
                     [name |-> ThemeNames[i],
                      display |-> themes[ThemeNames[i]].Name,
                      current |-> themes[ThemeNames[i]].Name = currentTheme.Name]]
    IN  /\ themesList' = NewList(items, <<"Themes - Press Enter to apply">>)
        /\ mode' = "themesView"
        /\ statusMsg' = <<"Select a theme and press Enter">>
        /\ UNCHANGED <<width, height, menuList, notesList, journalsList, tagsList,
                       templatesList, editor, viewer, currentNote, isJournal,
                       showHelp>>

\* a faulty applyTheme: the styles are rebuilt before the theme is saved
applyTheme_stylesFirst(themeName, io) ==
    IF themeName \notin DOMAIN themes
    THEN /\ statusMsg' = <<"Theme not found">>
         /\ UNCHANGED <<mode, width, height, lists, editor, viewer, currentNote,
                        isJournal, showHelp, styles, themeCfg>>
    ELSE IF io # "none"
    THEN /\ statusMsg' = <<"Error saving theme: ", ErrText>>
         /\ styles' = themes[themeName]
         /\ UNCHANGED <<mode, width, height, lists, editor, viewer, currentNote,
                        isJournal, showHelp, themeCfg>>
    ELSE /\ themeCfg' = saveTheme(themeName)
         /\ styles' = themes[themeName]
         /\ menuList' = NewList(MenuItems, <<"NoteType - Main Menu">>)
         /\ statusMsg' = <<"Applied theme: ", themes[themeName].Name,
                           " - All UI elements updated!">>
         /\ mode' = "menuView"
         /\ UNCHANGED <<width, height, notesList, journalsList, tagsList,
                        templatesList, themesList, editor, viewer, currentNote,
                        isJournal, showHelp>>

\* a faulty applyTheme: the styles are rebuilt, the name is not saved
applyTheme_notSaved(themeName, io) ==
    IF themeName \notin DOMAIN themes
    THEN /\ statusMsg' = <<"Theme not found">>
         /\ UNCHANGED <<mode, width, height, lists, editor, viewer, currentNote,
                        isJournal, showHelp, styles, themeCfg>>
    ELSE /\ styles' = themes[themeName]
         /\ menuList' = NewList(MenuItems, <<"NoteType - Main Menu">>)
         /\ statusMsg' = <<"Applied theme: ", themes[themeName].Name,
                           " - All UI elements updated!">>
         /\ mode' = "menuView"
         /\ UNCHANGED <<width, height, notesList, journalsList, tagsList,
                        templatesList, themesList, editor, viewer, currentNote,
                        isJournal, showHelp, themeCfg>>

\* applyTheme: io = "mkdir" fails saveTheme's MkdirAll, io = "io" its WriteFile
applyTheme(themeName, io) ==
    IF themeName \notin DOMAIN themes
    THEN /\ statusMsg' = <<"Theme not found">>
         /\ UNCHANGED <<mode, width, height, lists, editor, viewer, currentNote,
                        isJournal, showHelp, styles, themeCfg>>
    ELSE IF io # "none"
    THEN /\ statusMsg' = <<"Error saving theme: ", ErrText>>
         /\ UNCHANGED <<mode, width, height, lists, editor, viewer, currentNote,
                        isJournal, showHelp, styles, themeCfg>>
    ELSE /\ themeCfg' = saveTheme(themeName)
         /\ styles' = themes[themeName]
         /\ menuList' = NewList(MenuItems, <<"NoteType - Main Menu">>)
         /\ statusMsg' = <<"Applied theme: ", themes[themeName].Name,
                           " - All UI elements updated!">>
         /\ mode' = "menuView"
         /\ UNCHANGED <<width, height, notesList, journalsList, tagsList,
                        templatesList, themesList, editor, viewer, currentNote,
                        isJournal, showHelp>>

\* a faulty openJournal: the file is looked up in the working directory
openJournal_asNote(filename, io) ==
    LET filePath == NotePath(filename)
    IN  IF ~CanRead(files, filePath, io = "none")
        THEN /\ statusMsg' = <<"Error opening journal: ", ErrText>>
             /\ UNCHANGED <<mode, width, height, lists, editor, viewer, currentNote,
                            isJournal, showHelp>>
        ELSE /\ mode' = "viewerView"
             /\ currentNote' = filename
             /\ isJournal' = TRUE
             /\ viewer' = files[filePath]
             /\ statusMsg' = <<"Viewing journal entry - Press 'e' to edit">>
             /\ UNCHANGED <<width, height, lists, editor, showHelp>>

openJournal(filename, io) ==
    LET filePath == JournalPath(filename)
    IN  IF ~CanRead(files, filePath, io = "none")
        THEN /\ statusMsg' = <<"Error opening journal: ", ErrText>>
             /\ UNCHANGED <<mode, width, height, lists, editor, viewer, currentNote,
                            isJournal, showHelp>>
        ELSE /\ mode' = "viewerView"
             /\ currentNote' = filename
             /\ isJournal' = TRUE
             /\ viewer' = files[filePath]
             /\ statusMsg' = <<"Viewing journal entry - Press 'e' to edit">>
             /\ UNCHANGED <<width, height, lists, editor, showHelp>>

\* a faulty openNote: the assignment of currentNote is missing
openNote_keepsCurrent(filename, io) ==
    LET filePath == NotePath(filename)
    IN  IF ~CanRead(files, filePath, io = "none")
        THEN /\ statusMsg' = <<"Error opening note: ", ErrText>>
             /\ UNCHANGED <<mode, width, height, lists, editor, viewer, currentNote,
                            isJournal, showHelp>>
        ELSE /\ mode' = "viewerView"
             /\ isJournal' = FALSE
             /\ viewer' = files[filePath]
             /\ statusMsg' = <<"Viewing note - Press 'e' to edit">>
             /\ UNCHANGED <<width, height, lists, editor, currentNote, showHelp>>

openNote(filename, io) ==
    LET filePath == NotePath(filename)
    IN  IF ~CanRead(files, filePath, io = "none")
        THEN /\ statusMsg' = <<"Error opening note: ", ErrText>>
             /\ UNCHANGED <<mode, width, height, lists, editor, viewer, currentNote,
                            isJournal, showHelp>>
        ELSE /\ mode' = "viewerView"
             /\ currentNote' = filename
             /\ isJournal' = FALSE
             /\ viewer' = files[filePath]
             /\ statusMsg' = <<"Viewing note - Press 'e' to edit">>
             /\ UNCHANGED <<width, height, lists, editor, showHelp>>

\* a faulty editCurrentNote: the editor takes the viewer's content, the file
\* is only checked
editCurrentNote_fromViewer(io) ==
    LET filePath == IF isJournal THEN JournalPath(currentNote)
                    ELSE NotePath(currentNote)
    IN  IF ~CanRead(files, filePath, io = "none")
        THEN /\ statusMsg' = <<"Error loading file for editing: ", ErrText>>
             /\ UNCHANGED <<mode, width, height, lists, editor, viewer, currentNote,
                            isJournal, showHelp>>
        ELSE /\ mode' = "editorView"
             /\ editor' = viewer
             /\ statusMsg' = <<"Editing - Press Ctrl+S to save, Esc to cancel">>
             /\ UNCHANGED <<width, height, lists, viewer, currentNote, isJournal,
                            showHelp>>

editCurrentNote(io) ==
    LET filePath == IF isJournal THEN JournalPath(currentNote)
                    ELSE NotePath(currentNote)
    IN  IF ~CanRead(files, filePath, io = "none")
        THEN /\ statusMsg' = <<"Error loading file for editing: ", ErrText>>
             /\ UNCHANGED <<mode, width, height, lists, editor, viewer, currentNote,
                            isJournal, showHelp>>
        ELSE /\ mode' = "editorView"
             /\ editor' = files[filePath]
             /\ statusMsg' = <<"Editing - Press Ctrl+S to save, Esc to cancel">>
             /\ UNCHANGED <<width, height, lists, viewer, currentNote, isJournal,
                            showHelp>>

\* a faulty file name for the save: always generated, the bound id ignored
SaveFilename_generated ==
    IF isJournal THEN getTodayFilename(clock)
    ELSE <<"n", "o", "t", "e", "-">> \o Digits(TimeAt(clock).unix)

\* the name saveCurrentNote writes under
SaveFilename ==
    IF currentNote # <<>> THEN currentNote
    ELSE IF isJournal THEN getTodayFilename(clock)
    ELSE <<"n", "o", "t", "e", "-">> \o Digits(TimeAt(clock).unix)

\* the file saveCurrentNote writes
SavePath == IF isJournal THEN JournalPath(SaveFilename) ELSE NotePath(SaveFilename)

\* saveCurrentNote: io = "mkdir" fails ensureJournalDir, io = "io" the WriteFile
saveCurrentNote(io) ==
    /\ UNCHANGED <<mode, width, height, lists, editor, viewer, currentNote,
                   isJournal, showHelp>>
    /\ IF isJournal
       THEN IF io = "mkdir"
            THEN /\ statusMsg' = <<"Error: ", ErrText>>
                 /\ UNCHANGED <<files, journalDir>>
            ELSE /\ journalDir' = TRUE
                 /\ IF io = "io"
                    THEN /\ statusMsg' = <<"Error saving journal: ", ErrText>>
                         /\ UNCHANGED files
                    ELSE /\ files' = WriteFile(files, SavePath, editor)
                         /\ statusMsg' = <<"Journal ", "saved",
                                           " successfully! Press Esc to go back">>
       ELSE /\ UNCHANGED journalDir
            /\ IF io # "none"
               THEN /\ statusMsg' = <<"Error saving note: ", ErrText>>
                    /\ UNCHANGED files
               ELSE /\ files' = WriteFile(files, SavePath, editor)
                    /\ statusMsg' = <<"Note ", "saved",
                                      " successfully! Press Esc to go back">>

\* the file deleteSelected removes (the selection of the list isJournal names)
DeletePath ==
    IF isJournal THEN JournalPath(SelectedItem(journalsList).filename)
    ELSE NotePath(SelectedItem(notesList).filename)

deleteSelected(io, gone) ==
    IF ~HasSelection(IF isJournal THEN journalsList ELSE notesList)
    THEN UNCHANGED <<mode, width, height, lists, editor, viewer, statusMsg,
                     currentNote, isJournal, showHelp, files, running>>
    ELSE IF io # "none" \/ DeletePath \notin DOMAIN files
    THEN /\ statusMsg' = <<"Error deleting: ", ErrText>>
         /\ UNCHANGED <<mode, width, height, lists, editor, viewer, currentNote,
                        isJournal, showHelp, files, running>>
    ELSE /\ files' = RemoveFile(files, DeletePath)
         /\ IF isJournal THEN loadJournals(files', gone) ELSE loadNotes(files', gone)

(* ------------------- Update: one action per key path -------------------- *)

MoveKeys == {"up", "down"}

\* the printable keys the user types into the editor
TypedChars == {"x"}

\* the terminal sizes a resize reports
Sizes == {<<80, 24>>}

\* the sets of unreadable files a scan may meet: none, or any one file
BadSets == {{}} \cup {{p} : p \in DOMAIN files}

MenuSelected(title) ==
    /\ running
    /\ mode = "menuView"
    /\ HasSelection(menuList)
    /\ SelectedItem(menuList) = title

\* tea.WindowSizeMsg
Resize(w, h) ==
    /\ running
    /\ width' = w
    /\ height' = h
    /\ UNCHANGED call
    /\ last' = Event("Resize", "none")
    /\ UNCHANGED <<disk, clock, mode, lists, editor, viewer, statusMsg, currentNote,
                   isJournal, showHelp, styles, running>>

\* keys.Quit: "ctrl+c" or "q", in every mode
KeyQuit(k) ==
    /\ running
    /\ k \in {"ctrl+c", "q"}
    /\ running' = FALSE
    /\ UNCHANGED call
    /\ last' = Event("Quit", "none")
    /\ UNCHANGED <<disk, clock, mode, width, height, lists, editor, viewer, statusMsg,
                   currentNote, isJournal, showHelp, styles>>

\* keys.Help: "?"
\* a faulty Help key: it also leaves for the menu
KeyHelp_toMenu ==
    /\ running
    /\ showHelp' = ~showHelp
    /\ mode' = "menuView"
    /\ UNCHANGED call
    /\ last' = Event("Help", "none")
    /\ UNCHANGED <<disk, clock, width, height, lists, editor, viewer, statusMsg,
                   currentNote, isJournal, styles, running>>

KeyHelp ==
    /\ running
    /\ showHelp' = ~showHelp
    /\ UNCHANGED call
    /\ last' = Event("Help", "none")
    /\ UNCHANGED <<disk, clock, mode, width, height, lists, editor, viewer, statusMsg,
                   currentNote, isJournal, styles, running>>

\* a faulty Back: leaving the editor writes the buffer to the note being edited
KeyBack_writesBuffer ==
    /\ running
    /\ mode # "menuView"
    /\ mode' = "menuView"
    /\ statusMsg' = <<"Returned to main menu">>
    /\ files' = IF mode = "editorView" /\ ~isJournal /\ currentNote # <<>>
                THEN WriteFile(files, NotePath(currentNote), editor)
                ELSE files
    /\ UNCHANGED call
    /\ last' = Event("Back", "none")
    /\ UNCHANGED <<journalDir, themeCfg, clock, width, height, lists, editor, viewer,
                   currentNote, isJournal, showHelp, styles, running>>

\* keys.Back ("esc") outside the menu
KeyBack ==
    /\ running
    /\ mode # "menuView"
    /\ mode' = "menuView"
    /\ statusMsg' = <<"Returned to main menu">>
    /\ UNCHANGED call
    /\ last' = Event("Back", "none")
    /\ UNCHANGED <<disk, clock, width, height, lists, editor, viewer, currentNote,
                   isJournal, showHelp, styles, running>>

MenuTodayJournal(io) ==
    /\ MenuSelected("Today's Journal")
    /\ openTodayJournal(io)
    /\ UNCHANGED call
    /\ last' = Event("MenuTodayJournal", io)
    /\ UNCHANGED <<disk, clock, styles, running>>

MenuAllJournals(gone) ==
    /\ MenuSelected("All Journals")
    /\ loadJournals(files, gone)
    /\ UNCHANGED call
    /\ last' = Event("MenuAllJournals", IF running' THEN "none" ELSE "stat")
    /\ UNCHANGED <<disk, clock, styles>>

MenuNotes(gone) ==
    /\ MenuSelected("Notes")
    /\ loadNotes(files, gone)
    /\ UNCHANGED call
    /\ last' = Event("MenuNotes", IF running' THEN "none" ELSE "stat")
    /\ UNCHANGED <<disk, clock, styles>>

MenuNewNote ==
    /\ MenuSelected("New Note")
    /\ createNewNote
    /\ UNCHANGED call
    /\ last' = Event("MenuNewNote", "none")
    /\ UNCHANGED <<disk, clock, styles, running>>

MenuTemplates ==
    /\ MenuSelected("Templates")
    /\ loadTemplates
    /\ UNCHANGED call
    /\ last' = Event("MenuTemplates", "none")
    /\ UNCHANGED <<disk, clock, styles, running>>

MenuTags(bad) ==
    /\ MenuSelected("Tags")
    /\ loadTags(bad)
    /\ UNCHANGED call
    /\ last' = Event("MenuTags", IF bad = {} THEN "none" ELSE "io")
    /\ UNCHANGED <<disk, clock, styles, running>>

MenuSearch ==
    /\ MenuSelected("Search")
    /\ mode' = "searchView"
    /\ statusMsg' = <<"Search feature">>
    /\ UNCHANGED call
    /\ last' = Event("MenuSearch", "none")
    /\ UNCHANGED <<disk, clock, width, height, lists, editor, viewer, currentNote,
                   isJournal, showHelp, styles, running>>

MenuThemes ==
    /\ MenuSelected("Themes")
    /\ loadThemes
    /\ UNCHANGED call
    /\ last' = Event("MenuThemes", "none")
    /\ UNCHANGED <<disk, clock, styles, running>>

\* a faulty Export entry: it leaves the menu for the search view
MenuExport_leavesMenu ==
    /\ MenuSelected("Export")
    /\ mode' = "searchView"
    /\ statusMsg' = <<"Export: Use CLI - notetype export <file>">>
    /\ UNCHANGED call
    /\ last' = Event("MenuExport", "none")
    /\ UNCHANGED <<disk, clock, width, height, lists, editor, viewer,
                   currentNote, isJournal, showHelp, styles, running>>

MenuExport ==
    /\ MenuSelected("Export")
    /\ statusMsg' = <<"Export: Use CLI - notetype export <file>">>
    /\ UNCHANGED call
    /\ last' = Event("MenuExport", "none")
    /\ UNCHANGED <<disk, clock, mode, width, height, lists, editor, viewer,
                   currentNote, isJournal, showHelp, styles, running>>

MenuSettings ==
    /\ MenuSelected("Settings")
    /\ statusMsg' = <<"Settings not yet implemented">>
    /\ UNCHANGED call
    /\ last' = Event("MenuSettings", "none")
    /\ UNCHANGED <<disk, clock, mode, width, height, lists, editor, viewer,
                   currentNote, isJournal, showHelp, styles, running>>

\* any other key in the menu goes to menuList.Update, whose command Update
\* returns: "esc" reaches it here, because keys.Back does nothing in the menu
MenuOther(k) ==
    /\ running
    /\ mode = "menuView"
    /\ menuList' = ListCursor(menuList, k)
    /\ running' = (k \notin ListQuitKeys)
    /\ UNCHANGED call
    /\ last' = Event(IF k = "esc" THEN "MenuEsc" ELSE "MenuOther", "none")
    /\ UNCHANGED <<disk, clock, mode, width, height, notesList, journalsList,
                   tagsList, templatesList, themesList, editor, viewer, statusMsg,
                   currentNote, isJournal, showHelp, styles>>

\* keys.Save ("ctrl+s") in the editor
EditorSave(io) ==
    /\ running
    /\ mode = "editorView"
    /\ SavePath \in DOMAIN files
         \/ Cardinality({p \in DOMAIN files : p.dir = SavePath.dir}) < MaxNotes
    /\ saveCurrentNote(io)
    /\ UNCHANGED call
    /\ last' = Event("EditorSave", io)
    /\ UNCHANGED <<themeCfg, clock, styles, running>>

\* a printable key in the editor goes to the textarea, which inserts it at the
\* cursor (the end of the text)
EditorType(ch) ==
    /\ running
    /\ mode = "editorView"
    /\ Len(editor) < MaxLen
    /\ editor' = Append(editor, ch)
    /\ UNCHANGED call
    /\ last' = Event("EditorType", "none")
    /\ UNCHANGED <<disk, clock, mode, width, height, lists, viewer, statusMsg,
                   currentNote, isJournal, showHelp, styles, running>>

\* keys.Enter in a list: with no selected item the key does nothing
ListEnter(io) ==
    /\ running
    /\ mode = "listView"
    /\ IF isJournal
       THEN IF HasSelection(journalsList)
            THEN openJournal(SelectedItem(journalsList).filename, io)
            ELSE UNCHANGED <<mode, width, height, lists, editor, viewer, statusMsg,
                             currentNote, isJournal, showHelp>>
       ELSE IF HasSelection(notesList)
            THEN openNote(SelectedItem(notesList).filename, io)
            ELSE UNCHANGED <<mode, width, height, lists, editor, viewer, statusMsg,
                             currentNote, isJournal, showHelp>>
    /\ UNCHANGED call
    /\ last' = Event("ListEnter", io)
    /\ UNCHANGED <<disk, clock, styles, running>>

\* keys.NewEntry ("n") in a list
ListNewEntry(io) ==
    /\ running
    /\ mode = "listView"
    /\ createNewEntry(io)
    /\ UNCHANGED call
    /\ last' = Event("ListNewEntry", io)
    /\ UNCHANGED <<disk, clock, styles, running>>

\* keys.Delete ("d") in a list
ListDelete(io, gone) ==
    /\ running
    /\ mode = "listView"
    /\ deleteSelected(io, gone)
    /\ UNCHANGED call
    /\ last' = Event("ListDelete", IF running' THEN io ELSE "stat")
    /\ UNCHANGED <<journalDir, themeCfg, clock, styles>>

\* any other key in a list goes to the list isJournal names
ListOther(k) ==
    /\ running
    /\ mode = "listView"
    /\ IF isJournal
       THEN journalsList' = ListCursor(journalsList, k) /\ UNCHANGED notesList
       ELSE notesList' = ListCursor(notesList, k) /\ UNCHANGED journalsList
    /\ UNCHANGED call
    /\ last' = Event("ListOther", "none")
    /\ UNCHANGED <<disk, clock, mode, width, height, menuList, tagsList,
                   templatesList, themesList, editor, viewer, statusMsg, currentNote,
                   isJournal, showHelp, styles, running>>

\* keys.Edit ("e") in the viewer
ViewerEdit(io) ==
    /\ running
    /\ mode = "viewerView"
    /\ editCurrentNote(io)
    /\ UNCHANGED call
    /\ last' = Event("ViewerEdit", io)
    /\ UNCHANGED <<disk, clock, styles, running>>

\* any other key in the viewer scrolls the viewport: its content stays
ViewerOther ==
    /\ running
    /\ mode = "viewerView"
    /\ UNCHANGED call
    /\ last' = Event("ViewerOther", "none")
    /\ UNCHANGED <<disk, clock, mode, width, height, lists, editor, viewer, statusMsg,
                   currentNote, isJournal, showHelp, styles, running>>

TagsEnter(bad, gone) ==
    /\ running
    /\ mode = "tagsView"
    /\ IF HasSelection(tagsList)
       THEN showEntriesWithTag(SelectedItem(tagsList).tag, bad, gone)
       ELSE UNCHANGED <<mode, width, height, lists, editor, viewer, statusMsg,
                        currentNote, isJournal, showHelp, running>>
    /\ UNCHANGED call
    /\ last' = Event("TagsEnter", IF ~running' THEN "stat"
                                  ELSE IF bad = {} THEN "none" ELSE "io")
    /\ UNCHANGED <<disk, clock, styles>>

TagsOther(k) ==
    /\ running
    /\ mode = "tagsView"
    /\ tagsList' = ListCursor(tagsList, k)
    /\ UNCHANGED call
    /\ last' = Event("TagsOther", "none")
    /\ UNCHANGED <<disk, clock, mode, width, height, menuList, notesList,
                   journalsList, templatesList, themesList, editor, viewer, statusMsg,
                   currentNote, isJournal, showHelp, styles, running>>

TemplatesEnter(order) ==
    /\ running
    /\ mode = "templatesView"
    /\ IF HasSelection(templatesList)
       THEN createFromTemplate(SelectedItem(templatesList).name, order)
       ELSE UNCHANGED <<mode, width, height, lists, editor, viewer, statusMsg,
                        currentNote, isJournal, showHelp>>
    /\ UNCHANGED call
    /\ last' = Event("TemplatesEnter", "none")
    /\ UNCHANGED <<disk, clock, styles, running>>

TemplatesOther(k) ==
    /\ running
    /\ mode = "templatesView"
    /\ templatesList' = ListCursor(templatesList, k)
    /\ UNCHANGED call
    /\ last' = Event("TemplatesOther", "none")
    /\ UNCHANGED <<disk, clock, mode, width, height, menuList, notesList,
                   journalsList, tagsList, themesList, editor, viewer, statusMsg,
                   currentNote, isJournal, showHelp, styles, running>>

ThemesEnter(io) ==
    /\ running
    /\ mode = "themesView"
    /\ IF HasSelection(themesList)
       THEN applyTheme(SelectedItem(themesList).name, io)
       ELSE UNCHANGED <<mode, width, height, lists, editor, viewer, statusMsg,
                        currentNote, isJournal, showHelp, styles, themeCfg>>
    /\ UNCHANGED call
    /\ last' = Event("ThemesEnter", io)
    /\ UNCHANGED <<files, journalDir, clock, running>>

ThemesOther(k) ==
    /\ running
    /\ mode = "themesView"
    /\ themesList' = ListCursor(themesList, k)
    /\ UNCHANGED call
    /\ last' = Event("ThemesOther", "none")
    /\ UNCHANGED <<disk, clock, mode, width, height, menuList, notesList,
                   journalsList, tagsList, templatesList, editor, viewer, statusMsg,
                   currentNote, isJournal, showHelp, styles, running>>

\* searchView has no case in Update: every other key is dropped
SearchOther ==
    /\ running
    /\ mode = "searchView"
    /\ UNCHANGED call
    /\ last' = Event("SearchOther", "none")
    /\ UNCHANGED <<disk, clock, mode, width, height, lists, editor, viewer, statusMsg,
                   currentNote, isJournal, showHelp, styles, running>>

\* time passes between two events
Tick ==
    /\ running
    /\ clock < MaxClock
    /\ clock' = clock + 1
    /\ UNCHANGED call
    /\ last' = Event("Tick", "none")
    /\ UNCHANGED <<disk, mode, width, height, lists, editor, viewer, statusMsg,
                   currentNote, isJournal, showHelp, styles, running>>

(* ------------------------- the specifications -------------------------- *)
(* The whole Update is the disjunction of the actions above.  Its state    *)
(* space is the product of every list, buffer and file the session ever    *)
(* touched, so each specification below lets the user press the keys of    *)
(* one part of the program, from the state after construction.             *)

\* the cursor keys in the menu, no further down than item number far
MenuMove(far) == \E k \in MoveKeys : (MenuOther(k) /\ menuList'.idx <= far)

\* the mode machine: every menu entry and every Enter, Back and Quit path, over
\* a disk the session only reads
Next ==
    \/ \E k \in {"ctrl+c", "q"} : KeyQuit(k)
    \/ KeyBack
    \/ \E io \in {"none", "io"} : MenuTodayJournal(io)
    \/ MenuAllJournals({})
    \/ MenuNotes({})
    \/ MenuNewNote
    \/ MenuTemplates
    \/ \E bad \in BadSets : MenuTags(bad)
    \/ MenuSearch
    \/ MenuThemes
    \/ MenuExport
    \/ MenuSettings
    \/ \E k \in MoveKeys \cup {"esc"} : MenuOther(k)
    \/ \E io \in {"none", "io"} : ListEnter(io)
    \/ \E io \in {"none", "io"} : ListNewEntry(io)
    \/ \E k \in MoveKeys : ListOther(k)
    \/ \E io \in {"none", "io"} : ViewerEdit(io)
    \/ ViewerOther
    \/ \E bad \in BadSets : TagsEnter(bad, {})
    \/ \E k \in MoveKeys : TagsOther(k)
    \/ \E order \in VarOrders : TemplatesEnter(order)
    \/ \E k \in MoveKeys : (TemplatesOther(k) /\ templatesList'.idx <= MaxScroll)
    \/ \E io \in {"none", "mkdir", "io"} : ThemesEnter(io)
    \/ \E k \in MoveKeys : (ThemesOther(k) /\ themesList'.idx <= MaxScroll)
    \/ SearchOther

Spec == Init /\ [][Next]_vars

\* notes: listing, viewing, editing, saving and deleting the files of the
\* working directory, also through a tag-filtered list
NextNotes ==
    \/ MenuMove(5)
    \/ MenuNotes({})
    \/ MenuNewNote
    \/ \E bad \in BadSets : MenuTags(bad)
    \/ \E bad \in BadSets : TagsEnter(bad, {})
    \/ \E k \in MoveKeys : TagsOther(k)
    \/ KeyBack
    \/ \E io \in {"none", "io"} : EditorSave(io)
    \/ \E ch \in TypedChars : EditorType(ch)
    \/ \E io \in {"none", "io"} : ListEnter(io)
    \/ \E io \in {"none", "io"} : ListNewEntry(io)
    \/ \E io \in {"none", "io"} : ListDelete(io, {})
    \/ \E k \in MoveKeys : ListOther(k)
    \/ \E io \in {"none", "io"} : ViewerEdit(io)
    \/ Tick

SpecNotes == Init /\ [][NextNotes]_vars

\* the journal: today's entry, the journal list, saving and deleting, with the
\* help overlay and the terminal size changing at any time
NextJournal ==
    \/ MenuMove(1)
    \/ \E io \in {"none", "io"} : MenuTodayJournal(io)
    \/ MenuAllJournals({})
    \/ KeyBack
    \/ \E io \in {"none", "mkdir", "io"} : EditorSave(io)
    \/ \E ch \in TypedChars : EditorType(ch)
    \/ \E io \in {"none", "io"} : ListEnter(io)
    \/ \E io \in {"none", "io"} : ListNewEntry(io)
    \/ \E io \in {"none", "io"} : ListDelete(io, {})
    \/ \E k \in MoveKeys : ListOther(k)
    \/ \E io \in {"none", "io"} : ViewerEdit(io)
    \/ KeyHelp
    \/ \E sz \in Sizes : Resize(sz[1], sz[2])
    \/ Tick

SpecJournal == Init /\ [][NextJournal]_vars

\* saving from the editor, for a note and for a journal entry
NextSave ==
    \/ MenuMove(3)
    \/ \E io \in {"none", "io"} : MenuTodayJournal(io)
    \/ MenuNotes({})
    \/ MenuNewNote
    \/ KeyBack
    \/ \E io \in {"none", "mkdir", "io"} : EditorSave(io)
    \/ \E ch \in TypedChars : EditorType(ch)
    \/ \E io \in {"none", "io"} : ListEnter(io)
    \/ \E io \in {"none", "io"} : ViewerEdit(io)
    \/ Tick

SpecSave == Init /\ [][NextSave]_vars

\* templates: every entry of the templates list, rendered and saved
NextTemplates ==
    \/ MenuMove(4)
    \/ MenuTemplates
    \/ \E k \in MoveKeys : TemplatesOther(k)
    \/ \E order \in VarOrders : TemplatesEnter(order)
    \/ KeyBack
    \/ \E io \in {"none", "io"} : EditorSave(io)
    \/ Tick

SpecTemplates == Init /\ [][NextTemplates]_vars

(* -------------------- substituteVariables, called directly -------------- *)

\* most pieces a template body given to substituteVariables is made of
MaxPieces == 2

\* a key no variables map holds
K_who == <<"w", "h", "o">>

\* the pieces of a body: a placeholder of a key, known or not, or plain text
SubstPieces ==
    {Placeholder(K_title), Placeholder(K_date), Placeholder(K_who), <<"a">>}

RECURSIVE Contents(_)
\* the bodies of at most n pieces
Contents(n) ==
    IF n = 0 THEN {<<>>}
    ELSE Contents(n - 1) \cup {c \o p : c \in Contents(n - 1), p \in SubstPieces}

\* the values of a variable: plain text, or text that reads as a placeholder
SubstValues == {<<"v">>, Placeholder(K_date)}

\* the variables maps: any of the keys title and date, each with any value
SubstVars == UNION {[K -> SubstValues] : K \in SUBSET {K_title, K_date}}

\* the session as constructed, and the arguments of one call
InitSubst ==
    /\ files = (NotePath(<<"a">>) :> <<"#", "w">>)
    /\ journalDir = FALSE
    /\ themeCfg = [exists |-> FALSE, data |-> <<>>]
    /\ clock = 0
    /\ mode = "menuView"
    /\ width = 0
    /\ height = 0
    /\ menuList = NewList(MenuItems, <<"NoteType - Main Menu">>)
    /\ notesList = NoList
    /\ journalsList = NoList
    /\ tagsList = NoList
    /\ templatesList = NoList
    /\ themesList = NoList
    /\ editor = <<>>
    /\ viewer = <<>>
    /\ statusMsg = <<"Welcome to NoteType! Press ? for help">>
    /\ currentNote = <<>>
    /\ isJournal = FALSE
    /\ showHelp = FALSE
    /\ styles = loadTheme(themeCfg)
    /\ running = TRUE
    /\ last = Event("init", "none")
    /\ \E content \in Contents(MaxPieces), v \in SubstVars :
           \E order \in Orders(DOMAIN v) :
               call = [content |-> content, vars |-> v, order |-> order,
                       result |-> <<>>, done |-> FALSE]

\* the call returns
CallSubstitute ==
    /\ ~call.done
    /\ call' = [call EXCEPT
                   !.result = substituteVariables(call.content, call.vars, call.order),
                   !.done = TRUE]
    /\ UNCHANGED <<disk, clock, mode, width, height, lists, editor, viewer, statusMsg,
                   currentNote, isJournal, showHelp, styles, running, last>>

NextSubst == CallSubstitute

SpecSubst == InitSubst /\ [][NextSubst]_vars

(* ------------------------ extractTags, called directly ------------------ *)

\* longest content given to extractTags
MaxContent == 5

\* the characters of a content: the tag marker, a lowercase and an uppercase
\* word character, the hyphen, and a character that is neither
TagAlphabet == {"#", "a", "B", "-", " "}

\* "## heading #tag"
HeadingContent ==
    <<"#", "#", " ", "h", "e", "a", "d", "i", "n", "g", " ", "#", "t", "a", "g">>

\* the contents of at most n characters
ContentsUpTo(n) == UNION {[1..k -> TagAlphabet] : k \in 0..n}

\* the session as constructed, and the argument of one call
InitTags ==
    /\ files = (NotePath(<<"a">>) :> <<"#", "w">>)
    /\ journalDir = FALSE
    /\ themeCfg = [exists |-> FALSE, data |-> <<>>]
    /\ clock = 0
    /\ mode = "menuView"
    /\ width = 0
    /\ height = 0
    /\ menuList = NewList(MenuItems, <<"NoteType - Main Menu">>)
    /\ notesList = NoList
    /\ journalsList = NoList
    /\ tagsList = NoList
    /\ templatesList = NoList
    /\ themesList = NoList
    /\ editor = <<>>
    /\ viewer = <<>>
    /\ statusMsg = <<"Welcome to NoteType! Press ? for help">>
    /\ currentNote = <<>>
    /\ isJournal = FALSE
    /\ showHelp = FALSE
    /\ styles = loadTheme(themeCfg)
    /\ running = TRUE
    /\ last = Event("init", "none")
    /\ \E content \in ContentsUpTo(MaxContent) \cup {HeadingContent} :
           call = [content |-> content, result |-> <<>>, done |-> FALSE]

\* the call returns
CallExtractTags ==
    /\ ~call.done
    /\ call' = [call EXCEPT !.result = extractTags(call.content), !.done = TRUE]
    /\ UNCHANGED <<disk, clock, mode, width, height, lists, editor, viewer, statusMsg,
                   currentNote, isJournal, showHelp, styles, running, last>>

NextTags == CallExtractTags

SpecTags == InitTags /\ [][NextTags]_vars

(* ------------- getAllTags and findFilesByTag, called directly ------------ *)

\* most files a directory holds when the tag index is called directly
MaxDirFiles == 2

\* the names of the files of a directory
IndexNames == SubSeq(<<"a", "b", "c">>, 1, MaxDirFiles)

\* the paths a disk may hold
IndexPaths ==
    {[dir |-> d, base |-> <<IndexNames[i], ".md">>] :
        d \in {"cwd", "journal"}, i \in 1..Len(IndexNames)}

\* the contents of a file: a tag repeated, two tags of which one in upper
\* case, and a heading without a tag
IndexContents ==
    {<<"#", "x", " ", "#", "x">>, <<"#", "X", " ", "#", "y">>, <<"#", "#", "x">>}

\* the disks: any of the paths, each with any content
IndexDisks == UNION {[P -> IndexContents] : P \in SUBSET IndexPaths}

\* the tags looked up: as stored, in upper case, and one no file holds
IndexTags == {<<"x">>, <<"X">>, <<"z">>}

\* the session as constructed, and the disk and arguments of one call
InitIndex ==
    /\ files = (NotePath(<<"a">>) :> <<"#", "w">>)
    /\ journalDir = FALSE
    /\ themeCfg = [exists |-> FALSE, data |-> <<>>]
    /\ clock = 0
    /\ mode = "menuView"
    /\ width = 0
    /\ height = 0
    /\ menuList = NewList(MenuItems, <<"NoteType - Main Menu">>)
    /\ notesList = NoList
    /\ journalsList = NoList
    /\ tagsList = NoList
    /\ templatesList = NoList
    /\ themesList = NoList
    /\ editor = <<>>
    /\ viewer = <<>>
    /\ statusMsg = <<"Welcome to NoteType! Press ? for help">>
    /\ currentNote = <<>>
    /\ isJournal = FALSE
    /\ showHelp = FALSE
    /\ styles = loadTheme(themeCfg)
    /\ running = TRUE
    /\ last = Event("init", "none")
    /\ \E fs \in IndexDisks, jdir \in BOOLEAN :
           /\ (\E p \in DOMAIN fs : p.dir = "journal") => jdir
           /\ \E bad \in {{}} \cup {{p} : p \in DOMAIN fs} :
                  \/ call = [fn |-> "getAllTags", fs |-> fs, jdir |-> jdir,
                             bad |-> bad, tag |-> <<>>, result |-> <<>>,
                             done |-> FALSE]
                  \/ \E tag \in IndexTags :
                         call = [fn |-> "findFilesByTag", fs |-> fs, jdir |-> jdir,
                                 bad |-> bad, tag |-> tag, result |-> <<>>,
                                 done |-> FALSE]

\* getAllTags returns
CallGetAllTags ==
    /\ ~call.done
    /\ call.fn = "getAllTags"
    /\ call' = [call EXCEPT !.result = getAllTags(call.fs, call.jdir, call.bad),
                            !.done = TRUE]
    /\ UNCHANGED <<disk, clock, mode, width, height, lists, editor, viewer, statusMsg,
                   currentNote, isJournal, showHelp, styles, running, last>>

\* findFilesByTag returns
CallFindFilesByTag ==
    /\ ~call.done
    /\ call.fn = "findFilesByTag"
    /\ call' = [call EXCEPT
                   !.result = findFilesByTag(call.tag, call.fs, call.jdir, call.bad),
                   !.done = TRUE]
    /\ UNCHANGED <<disk, clock, mode, width, height, lists, editor, viewer, statusMsg,
                   currentNote, isJournal, showHelp, styles, running, last>>

NextIndex == CallGetAllTags \/ CallFindFilesByTag

SpecIndex == InitIndex /\ [][NextIndex]_vars

(* ---------------- browsing a disk another program also writes ----------- *)

\* what another program writes into a file while the session runs
ExternalContents == {<<"#", "v">>}

\* another program rewrites an existing file
ExternalEdit ==
    /\ running
    /\ \E p \in DOMAIN files, content \in ExternalContents :
           /\ files[p] # content
           /\ files' = WriteFile(files, p, content)
    /\ UNCHANGED call
    /\ last' = Event("ExternalEdit", "none")
    /\ UNCHANGED <<journalDir, themeCfg, clock, mode, width, height, lists, editor,
                   viewer, statusMsg, currentNote, isJournal, showHelp, styles,
                   running>>

\* the session as constructed, over a disk left by earlier sessions: a tagged
\* note and a tagged journal entry
InitBrowse ==
    /\ files = (NotePath(<<"a">>) :> <<"#", "w">>)
                   @@ (JournalPath(getTodayFilename(0)) :> <<"#", "w", " ", "x">>)
    /\ journalDir = TRUE
    /\ themeCfg = [exists |-> FALSE, data |-> <<>>]
    /\ clock = 0
    /\ mode = "menuView"
    /\ width = 0
    /\ height = 0
    /\ menuList = NewList(MenuItems, <<"NoteType - Main Menu">>)
    /\ notesList = NoList
    /\ journalsList = NoList
    /\ tagsList = NoList
    /\ templatesList = NoList
    /\ themesList = NoList
    /\ editor = <<>>
    /\ viewer = <<>>
    /\ statusMsg = <<"Welcome to NoteType! Press ? for help">>
    /\ currentNote = <<>>
    /\ isJournal = FALSE
    /\ showHelp = FALSE
    /\ styles = loadTheme(themeCfg)
    /\ running = TRUE
    /\ last = Event("init", "none")
    /\ call = NoCall

\* browsing: the journal list, the notes list and the tag-filtered list, the
\* viewer and the editor opened from it, while the files change on disk
NextBrowse ==
    \/ MenuMove(5)
    \/ MenuAllJournals({})
    \/ MenuNotes({})
    \/ \E bad \in BadSets : MenuTags(bad)
    \/ \E bad \in BadSets : TagsEnter(bad, {})
    \/ \E k \in MoveKeys : TagsOther(k)
    \/ \E io \in {"none", "io"} : ListEnter(io)
    \/ \E k \in MoveKeys : ListOther(k)
    \/ \E io \in {"none", "io"} : ViewerEdit(io)
    \/ KeyBack
    \/ ExternalEdit

SpecBrowse == InitBrowse /\ [][NextBrowse]_vars

(* ------------------------------ the themes ------------------------------ *)

\* themes: every entry of the themes list, applied and persisted
NextThemes ==
    \/ MenuMove(7)
    \/ MenuThemes
    \/ \E k \in MoveKeys : ThemesOther(k)
    \/ \E io \in {"none", "mkdir", "io"} : ThemesEnter(io)
    \/ KeyBack

SpecThemes == Init /\ [][NextThemes]_vars

(* ------------------------- failing file operations ---------------------- *)

\* the files a directory scan returned whose Stat then fails (removed in
\* between, or a dangling link): none, or any one file
GoneSets == {{}} \cup {{p} : p \in DOMAIN files}

\* every handler that calls the disk or the theme store, with each of its
\* calls failing or not
NextFaults ==
    \/ MenuMove(7)
    \/ \E io \in {"none", "io"} : MenuTodayJournal(io)
    \/ \E gone \in GoneSets : MenuAllJournals(gone)
    \/ \E gone \in GoneSets : MenuNotes(gone)
    \/ \E bad \in BadSets : MenuTags(bad)
    \/ \E bad \in BadSets, gone \in GoneSets : TagsEnter(bad, gone)
    \/ MenuThemes
    \/ \E k \in MoveKeys : (ThemesOther(k) /\ themesList'.idx <= MaxScroll + 1)
    \/ \E io \in {"none", "mkdir", "io"} : ThemesEnter(io)
    \/ KeyBack
    \/ \E io \in {"none", "mkdir", "io"} : EditorSave(io)
    \/ \E io \in {"none", "io"} : ListEnter(io)
    \/ \E io \in {"none", "io"}, gone \in GoneSets : ListDelete(io, gone)
    \/ \E k \in MoveKeys : ListOther(k)
    \/ \E io \in {"none", "io"} : ViewerEdit(io)

SpecFaults == Init /\ [][NextFaults]_vars

(* ------------------ the theme store, called directly -------------------- *)

\* the theme names given to the store: two of the catalog, one that is not,
\* and the empty name
ThemeArgs == {"violet", "nord", "bogus", ""}

\* what the config file may hold: nothing, a bare name, the JSON of a
\* catalog name, the JSON of another name, and a JSON string cut short
ConfigDatas ==
    {<<>>, <<"nord">>, JsonMarshal("nord"), JsonMarshal("violet"),
     JsonMarshal("bogus"), <<"\"", "nord">>}

\* the config directory and file: neither, the directory only, or both
ConfigStates ==
    {[dir |-> FALSE, exists |-> FALSE, data |-> <<>>],
     [dir |-> TRUE, exists |-> FALSE, data |-> <<>>]}
        \cup {[dir |-> TRUE, exists |-> TRUE, data |-> d] : d \in ConfigDatas}

\* saveTheme on the config cfg: io = "mkdir" fails its MkdirAll, io = "io" its
\* WriteFile (the directory exists by then); the config after it and whether
\* it returned an error
saveThemeOn(cfg, themeName, io) ==
    IF io = "mkdir" THEN [cfg |-> cfg, err |-> TRUE]
    ELSE IF io = "io" THEN [cfg |-> [cfg EXCEPT !.dir = TRUE], err |-> TRUE]
    ELSE [cfg |-> [dir |-> TRUE] @@ saveTheme(themeName), err |-> FALSE]

\* a faulty themeSetCmd: the name is not looked up in the catalog
themeSetCmd_unchecked(cfg, themeName, io) ==
    LET r == saveThemeOn(cfg, themeName, io)
    IN  [cfg |-> r.cfg,
         out |-> IF r.err THEN "Error saving theme" ELSE "Theme set to"]

\* the run of `theme set <theme-name>`: the config after it and what it prints
themeSetCmd(cfg, themeName, io) ==
    IF themeName \notin DOMAIN themes
    THEN [cfg |-> cfg, out |-> "Theme not found"]
    ELSE LET r == saveThemeOn(cfg, themeName, io)
         IN  [cfg |-> r.cfg,
              out |-> IF r.err THEN "Error saving theme" ELSE "Theme set to"]

\* a faulty loadThemeOn: a file that cannot be read is an error
loadThemeOn_strict(cfg, io) ==
    IF io # "none" THEN [Name |-> "<error>", Primary |-> ""] ELSE loadTheme(cfg)

\* loadTheme on the config cfg: io = "io" fails its ReadFile, which it treats
\* like a missing file
loadThemeOn(cfg, io) ==
    loadTheme(IF io = "none" THEN cfg ELSE [cfg EXCEPT !.exists = FALSE])

\* the session as constructed, and the config and arguments of one call
InitThemeStore ==
    /\ files = (NotePath(<<"a">>) :> <<"#", "w">>)
    /\ journalDir = FALSE
    /\ themeCfg = [exists |-> FALSE, data |-> <<>>]
    /\ clock = 0
    /\ mode = "menuView"
    /\ width = 0
    /\ height = 0
    /\ menuList = NewList(MenuItems, <<"NoteType - Main Menu">>)
    /\ notesList = NoList
    /\ journalsList = NoList
    /\ tagsList = NoList
    /\ templatesList = NoList
    /\ themesList = NoList
    /\ editor = <<>>
    /\ viewer = <<>>
    /\ statusMsg = <<"Welcome to NoteType! Press ? for help">>
    /\ currentNote = <<>>
    /\ isJournal = FALSE
    /\ showHelp = FALSE
    /\ styles = loadTheme(themeCfg)
    /\ running = TRUE
    /\ last = Event("init", "none")
    /\ \E cfg \in ConfigStates :
           \/ \E fn \in {"saveTheme", "themeSetCmd"}, arg \in ThemeArgs,
                 io \in {"none", "mkdir", "io"} :
                  /\ io = "mkdir" => ~cfg.dir
                  /\ call = [fn |-> fn, cfg |-> cfg, arg |-> arg, io |-> io,
                             after |-> cfg, result |-> <<>>, done |-> FALSE]
           \/ \E io \in {"none", "io"} :
                  /\ io = "io" => cfg.exists
                  /\ call = [fn |-> "loadTheme", cfg |-> cfg, arg |-> "", io |-> io,
                             after |-> cfg, result |-> <<>>, done |-> FALSE]

\* saveTheme returns
CallSaveTheme ==
    /\ ~call.done
    /\ call.fn = "saveTheme"
    /\ LET r == saveThemeOn(call.cfg, call.arg, call.io)
       IN  call' = [call EXCEPT !.after = r.cfg, !.result = r.err, !.done = TRUE]
    /\ UNCHANGED <<disk, clock, mode, width, height, lists, editor, viewer, statusMsg,
                   currentNote, isJournal, showHelp, styles, running, last>>

\* `theme set` ends
CallThemeSet ==
    /\ ~call.done
    /\ call.fn = "themeSetCmd"
    /\ LET r == themeSetCmd(call.cfg, call.arg, call.io)
       IN  call' = [call EXCEPT !.after = r.cfg, !.result = r.out, !.done = TRUE]
    /\ UNCHANGED <<disk, clock, mode, width, height, lists, editor, viewer, statusMsg,
                   currentNote, isJournal, showHelp, styles, running, last>>

\* loadTheme returns
CallLoadTheme ==
    /\ ~call.done
    /\ call.fn = "loadTheme"
    /\ call' = [call EXCEPT !.result = loadThemeOn(call.cfg, call.io), !.done = TRUE]
    /\ UNCHANGED <<disk, clock, mode, width, height, lists, editor, viewer, statusMsg,
                   currentNote, isJournal, showHelp, styles, running, last>>

NextThemeStore == CallSaveTheme \/ CallThemeSet \/ CallLoadTheme

SpecThemeStore == InitThemeStore /\ [][NextThemeStore]_vars

(* --------------------- the commands, called directly -------------------- *)

\* the file names given to the commands: one that has a file, the same with
\* the suffix written out, and one that has no file
CmdNames == {<<"a">>, <<"a", ".md">>, <<"b">>}

\* the path a command opens when it adds no suffix to the name
RawPath(name) == [dir |-> "cwd", base |-> name]

\* filepath.Join(getTemplateDir(), templateName + ".md")
TemplatePath(name) == [dir |-> "templates", base |-> name \o <<".md">>]

\* the paths the disk of a command may hold: the note a.md, a file named a, a
\* custom template named like a built-in one, and a custom template
CmdPaths ==
    {NotePath(<<"a">>), RawPath(<<"a">>), TemplatePath(T_daily), TemplatePath(<<"c">>)}

\* the contents of those files
CmdContents == {<<"o">>, <<"{", "{", "t", "i", "t", "l", "e", "}", "}", "!">>}

CmdDisks == UNION {[P -> CmdContents] : P \in SUBSET CmdPaths}

\* what a command leaves: the disk, its error ("none": nil) and what it printed
CmdResult(fs, err, out) == [fs |-> fs, err |-> err, out |-> out]

WhiteSpace == {" ", "\n", "\t"}

RECURSIVE TrimSpace(_)
\* strings.TrimSpace
TrimSpace(s) ==
    IF s = <<>> THEN s
    ELSE IF Head(s) \in WhiteSpace THEN TrimSpace(Tail(s))
    ELSE IF s[Len(s)] \in WhiteSpace THEN TrimSpace(SubSeq(s, 1, Len(s) - 1))
    ELSE s

RECURSIVE ReadLines(_)
\* the loop over reader.ReadString('\n'): the lines read before the end of
\* the input or a line that says EOF; a last line without a line end comes
\* with io.EOF and is dropped; strings.Join(lines, "")
ReadLines(stdin) ==
    IF stdin = <<>> THEN <<>>
    ELSE LET line == Head(stdin)
         IN  IF line = <<>> \/ line[Len(line)] # "\n" THEN <<>>
             ELSE IF TrimSpace(line) \in {<<"E", "O", "F">>, <<"e", "o", "f">>} THEN <<>>
             ELSE line \o ReadLines(Tail(stdin))

\* the seconds of time.Now() at the given clock value
SecondAt(c) == IF c = 0 THEN 59 ELSE (c - 1) % 60

\* now.Format("2006-01-02 15:04:05")
FormatDateTimeSec(c) == FormatDateTime(TimeAt(c)) \o <<":">> \o Pad2(SecondAt(c))

\* a faulty updateFile: the file is opened for writing without O_APPEND
updateFile_overwrites(fs, filename, content, interactive, stdin, addTimestamp, c, io) ==
    LET filepath == NotePath(filename)
        fullContent == IF interactive THEN ReadLines(stdin) ELSE content
        updateText ==
            IF addTimestamp
            THEN <<"\n", "\n", "-", "-", "-", "\n", "**Updated:** ">>
                     \o FormatDateTimeSec(c) \o <<"\n", "\n">> \o fullContent
            ELSE <<"\n", "\n">> \o fullContent
    IN  IF filepath \notin DOMAIN fs THEN CmdResult(fs, "does not exist", <<>>)
        ELSE IF io = "open" THEN CmdResult(fs, "error opening file", <<>>)
        ELSE IF io = "write" THEN CmdResult(fs, "error writing to file", <<>>)
        ELSE CmdResult(WriteFile(fs, filepath, updateText), "none",
                       <<"Successfully updated">>)

\* updateFile: io = "open" fails its OpenFile, io = "write" its WriteString
updateFile(fs, filename, content, interactive, stdin, addTimestamp, c, io) ==
    LET filepath == NotePath(filename)
        fullContent == IF interactive THEN ReadLines(stdin) ELSE content
        updateText ==
            IF addTimestamp
            THEN <<"\n", "\n", "-", "-", "-", "\n", "**Updated:** ">>
                     \o FormatDateTimeSec(c) \o <<"\n", "\n">> \o fullContent
            ELSE <<"\n", "\n">> \o fullContent
    IN  IF filepath \notin DOMAIN fs THEN CmdResult(fs, "does not exist", <<>>)
        ELSE IF io = "open" THEN CmdResult(fs, "error opening file", <<>>)
        ELSE IF io = "write" THEN CmdResult(fs, "error writing to file", <<>>)
        ELSE CmdResult(WriteFile(fs, filepath, fs[filepath] \o updateText), "none",
                       <<"Successfully updated">>)

\* deleteNote: the name is removed as given; whatever os.Remove returns, the
\* success line is printed
deleteNote(fs, filename, io) ==
    LET path == RawPath(filename)
        removed == io = "none" /\ path \in DOMAIN fs
    IN  CmdResult(IF removed THEN RemoveFile(fs, path) ELSE fs, "none",
                  (IF removed THEN <<>> ELSE <<ErrText>>)
                      \o <<"deleted entry succesfully">>)

\* removeFile: whatever os.Remove returns, the success line is printed
removeFile(fs, filename, io) ==
    LET path == NotePath(filename)
        removed == io = "none" /\ path \in DOMAIN fs
    IN  CmdResult(IF removed THEN RemoveFile(fs, path) ELSE fs, "none",
                  (IF removed THEN <<>> ELSE <<ErrText>>)
                      \o <<"has been removed">>)

\* createAndAddFile: when os.Create fails the error is printed, the writes to
\* the nil file fail unnoticed, and the success line is printed
createAndAddFile(fs, filename, title, entry, c, io) ==
    LET path == NotePath(filename)
        structure == <<"# ">> \o title \o <<"\n", "<span style=\"opacity:0.5\">">>
                         \o FormatDate(TimeAt(c)) \o <<"</span>", "\n", "---">>
    IN  CmdResult(IF io = "none" THEN WriteFile(fs, path, structure \o <<"\n">> \o entry)
                  ELSE fs,
                  "none",
                  (IF io = "none" THEN <<>> ELSE <<ErrText>>)
                      \o <<"has been successfully created.">>)

\* a faulty applyTemplate: the custom templates are looked up first
applyTemplate_customFirst(fs, templateName, filename, title, c, order, io) ==
    LET templatePath == TemplatePath(templateName)
        custom == io # "read" /\ templatePath \in DOMAIN fs
    IN  IF ~custom /\ templateName \notin DOMAIN builtInTemplates
        THEN CmdResult(fs, "template not found", <<>>)
        ELSE LET templateContent == IF custom THEN fs[templatePath]
                                    ELSE builtInTemplates[templateName]
                 finalContent ==
                     substituteVariables(templateContent, TemplateVars(c, title), order)
             IN  IF io = "write" THEN CmdResult(fs, "error creating file", <<>>)
                 ELSE CmdResult(WriteFile(fs, NotePath(filename), finalContent),
                                "none", <<>>)

\* applyTemplate: io = "read" fails the ReadFile of the custom template,
\* io = "write" the WriteFile of the note
applyTemplate(fs, templateName, filename, title, c, order, io) ==
    LET exists == templateName \in DOMAIN builtInTemplates
        templatePath == TemplatePath(templateName)
    IN  IF ~exists /\ (io = "read" \/ templatePath \notin DOMAIN fs)
        THEN CmdResult(fs, "template not found", <<>>)
        ELSE LET templateContent == IF exists THEN builtInTemplates[templateName]
                                    ELSE fs[templatePath]
                 finalContent ==
                     substituteVariables(templateContent, TemplateVars(c, title), order)
             IN  IF io = "write" THEN CmdResult(fs, "error creating file", <<>>)
                 ELSE CmdResult(WriteFile(fs, NotePath(filename), finalContent),
                                "none", <<>>)

\* what the user enters in interactive mode: nothing, one line, lines around
\* a line that says EOF, and a line the input ends in
StdinInputs ==
    {<<>>,
     << <<"t", "\n">> >>,
     << <<"t", "\n">>, <<" ", "E", "O", "F", "\n">>, <<"u", "\n">> >>,
     << <<"t", "\n">>, <<"u">> >>}

\* the template names given to applyTemplate: a built-in one, a custom one,
\* and one that names nothing
TemplateArgs == {T_daily, <<"c">>, <<"z">>}

\* the arguments of one call of a command
CmdCalls ==
    {[fn |-> "updateFile", name |-> n, content |-> t, interactive |-> FALSE,
      stdin |-> <<>>, addTimestamp |-> ts, template |-> <<>>, order |-> <<>>,
      io |-> io] :
        n \in CmdNames, t \in {<<>>, <<"t">>}, ts \in BOOLEAN,
        io \in {"none", "open", "write"}}
    \cup
    {[fn |-> "updateFile", name |-> n, content |-> <<>>, interactive |-> TRUE,
      stdin |-> in, addTimestamp |-> ts, template |-> <<>>, order |-> <<>>,
      io |-> "none"] :
        n \in CmdNames, in \in StdinInputs, ts \in BOOLEAN}
    \cup
    {[fn |-> fn, name |-> n, content |-> <<"e">>, interactive |-> FALSE,
      stdin |-> <<>>, addTimestamp |-> FALSE, template |-> <<>>, order |-> <<>>,
      io |-> io] :
        fn \in {"deleteNote", "removeFile", "createAndAddFile"}, n \in CmdNames,
        io \in {"none", "io"}}
    \cup
    {[fn |-> "applyTemplate", name |-> n, content |-> <<>>, interactive |-> FALSE,
      stdin |-> <<>>, addTimestamp |-> FALSE, template |-> t, order |-> o,
      io |-> io] :
        n \in CmdNames, t \in TemplateArgs, o \in VarOrders,
        io \in {"none", "read", "write"}}

\* the session as constructed, and the disk and arguments of one call
InitCommands ==
    /\ files = (NotePath(<<"a">>) :> <<"#", "w">>)
    /\ journalDir = FALSE
    /\ themeCfg = [exists |-> FALSE, data |-> <<>>]
    /\ clock \in 0..MaxClock
    /\ mode = "menuView"
    /\ width = 0
    /\ height = 0
    /\ menuList = NewList(MenuItems, <<"NoteType - Main Menu">>)
    /\ notesList = NoList
    /\ journalsList = NoList
    /\ tagsList = NoList
    /\ templatesList = NoList
    /\ themesList = NoList
    /\ editor = <<>>
    /\ viewer = <<>>
    /\ statusMsg = <<"Welcome to NoteType! Press ? for help">>
    /\ currentNote = <<>>
    /\ isJournal = FALSE
    /\ showHelp = FALSE
    /\ styles = loadTheme(themeCfg)
    /\ running = TRUE
    /\ last = Event("init", "none")
    /\ \E fs \in CmdDisks, args \in CmdCalls :
           call = [args |-> args, fs |-> fs, result |-> CmdResult(fs, "none", <<>>),
                   done |-> FALSE]

\* the frame of a direct call: the session is not involved
CallFrame ==
    UNCHANGED <<disk, clock, mode, width, height, lists, editor, viewer, statusMsg,
                currentNote, isJournal, showHelp, styles, running, last>>

\* `update <filename> [content]` ends
CallUpdateFile ==
    /\ ~call.done
    /\ call.args.fn = "updateFile"
    /\ call' = [call EXCEPT
                   !.result = updateFile(call.fs, call.args.name, call.args.content,
                                         call.args.interactive, call.args.stdin,
                                         call.args.addTimestamp, clock, call.args.io),
                   !.done = TRUE]
    /\ CallFrame

\* `delete <filename>` ends
CallDeleteNote ==
    /\ ~call.done
    /\ call.args.fn = "deleteNote"
    /\ call' = [call EXCEPT
                   !.result = deleteNote(call.fs, call.args.name, call.args.io),
                   !.done = TRUE]
    /\ CallFrame

\* `remove <filename>` ends
CallRemoveFile ==
    /\ ~call.done
    /\ call.args.fn = "removeFile"
    /\ call' = [call EXCEPT
                   !.result = removeFile(call.fs, call.args.name, call.args.io),
                   !.done = TRUE]
    /\ CallFrame

\* `new <filename> <title> <entry>` ends
CallCreateAndAddFile ==
    /\ ~call.done
    /\ call.args.fn = "createAndAddFile"
    /\ call' = [call EXCEPT
                   !.result = createAndAddFile(call.fs, call.args.name, <<"T">>,
                                               call.args.content, clock, call.args.io),
                   !.done = TRUE]
    /\ CallFrame

\* `template <template-name> <filename> <title>` ends
CallApplyTemplate ==
    /\ ~call.done
    /\ call.args.fn = "applyTemplate"
    /\ call' = [call EXCEPT
                   !.result = applyTemplate(call.fs, call.args.template, call.args.name,
                                            <<"T">>, clock, call.args.order,
                                            call.args.io),
                   !.done = TRUE]
    /\ CallFrame

NextCommands ==
    \/ CallUpdateFile
    \/ CallDeleteNote
    \/ CallRemoveFile
    \/ CallCreateAndAddFile
    \/ CallApplyTemplate

SpecCommands == InitCommands /\ [][NextCommands]_vars

(* ------------------------------ the help key ---------------------------- *)

\* every mode entered from the menu, and the help key in each of them
NextHelp ==
    \/ \E k \in MoveKeys : MenuOther(k)
    \/ MenuTodayJournal("none")
    \/ MenuAllJournals({})
    \/ MenuNotes({})
    \/ MenuTemplates
    \/ MenuTags({})
    \/ MenuSearch
    \/ MenuThemes
    \/ ListEnter("none")
    \/ KeyBack
    \/ KeyHelp

SpecHelp == Init /\ [][NextHelp]_vars

(* ------------------------------ the cursors ----------------------------- *)

\* the notes list and the journal list: entries created, the cursor moved,
\* entries deleted
NextCursor ==
    \/ MenuMove(3)
    \/ MenuTodayJournal("none")
    \/ MenuAllJournals({})
    \/ MenuNotes({})
    \/ MenuNewNote
    \/ EditorSave("none")
    \/ \E io \in {"none", "io"} : ListDelete(io, {})
    \/ \E k \in MoveKeys : ListOther(k)
    \/ KeyBack
    \/ Tick

SpecCursor == Init /\ [][NextCursor]_vars

(* ---------------- the Tags view over a disk that changes ----------------- *)

\* what another program may leave in a file: one tag, no tag, two tags
TagViewContents == {<<"#", "v">>, <<"x">>, <<"#", "w", " ", "#", "v">>}

\* another program rewrites an existing file
ExternalRewrite ==
    /\ running
    /\ \E p \in DOMAIN files, content \in TagViewContents :
           /\ files[p] # content
           /\ files' = WriteFile(files, p, content)
    /\ UNCHANGED call
    /\ last' = Event("ExternalRewrite", "none")
    /\ UNCHANGED <<journalDir, themeCfg, clock, mode, width, height, lists, editor,
                   viewer, statusMsg, currentNote, isJournal, showHelp, styles,
                   running>>

NextTagsView ==
    \/ MenuMove(5)
    \/ \E bad \in BadSets : MenuTags(bad)
    \/ \E k \in MoveKeys : TagsOther(k)
    \/ KeyBack
    \/ ExternalRewrite

SpecTagsView == InitBrowse /\ [][NextTagsView]_vars

(* ------------- list views entered again after the disk changed ----------- *)

NextLists ==
    \/ MenuMove(5)
    \/ MenuTodayJournal("none")
    \/ MenuAllJournals({})
    \/ MenuNotes({})
    \/ MenuNewNote
    \/ MenuTags({})
    \/ TagsEnter({}, {})
    \/ \E k \in MoveKeys : TagsOther(k)
    \/ EditorSave("none")
    \/ \E io \in {"none", "io"} : ListDelete(io, {})
    \/ \E io \in {"none", "io"} : ListEnter(io)
    \/ \E k \in MoveKeys : ListOther(k)
    \/ KeyBack

SpecLists == Init /\ [][NextLists]_vars

(* ------------------- printable keys pressed in the editor ---------------- *)

\* printable keys: a plain letter, and the two that keys.Quit and keys.Help bind
PrintableKeys == {"x", "q", "?"}

\* Update for a tea.KeyMsg carrying one printable character while the mode is
\* Editor: the global bindings are matched before the mode's own, so "q" is
\* keys.Quit and "?" is keys.Help; any other character reaches editor.Update,
\* which inserts it.  The event keeps the key that was pressed.
EditorKey(ch) ==
    /\ running
    /\ mode = "editorView"
    /\ IF ch \in {"ctrl+c", "q"}
       THEN /\ running' = FALSE
            /\ UNCHANGED <<editor, showHelp>>
       ELSE IF ch = "?"
       THEN /\ showHelp' = ~showHelp
            /\ UNCHANGED <<editor, running>>
       ELSE /\ Len(editor) < MaxLen
            /\ editor' = Append(editor, ch)
            /\ UNCHANGED <<showHelp, running>>
    /\ UNCHANGED call
    /\ last' = [ev |-> "EditorKey", io |-> "none", key |-> ch]
    /\ UNCHANGED <<disk, clock, mode, width, height, lists, viewer, statusMsg,
                   currentNote, isJournal, styles>>

NextEditor ==
    \/ MenuMove(3)
    \/ MenuTodayJournal("none")
    \/ MenuNewNote
    \/ \E ch \in PrintableKeys : EditorKey(ch)
    \/ EditorSave("none")
    \/ KeyBack
    \/ Tick

SpecEditor == Init /\ [][NextEditor]_vars

(* ------------- opening and deleting from a tag-filtered list ------------- *)

\* the disks earlier sessions left: a tagged note and a tagged journal entry,
\* with or without an untagged note that has the journal entry's base name
TaggedDisks ==
    LET base == (NotePath(<<"a">>) :> <<"#", "w">>)
                    @@ (JournalPath(getTodayFilename(0)) :> <<"#", "w", " ", "x">>)
    IN  {base, base @@ (NotePath(getTodayFilename(0)) :> <<"y">>)}

InitTagged ==
    /\ files \in TaggedDisks
    /\ journalDir = TRUE
    /\ themeCfg = [exists |-> FALSE, data |-> <<>>]
    /\ clock = 0
    /\ mode = "menuView"
    /\ width = 0
    /\ height = 0
    /\ menuList = NewList(MenuItems, <<"NoteType - Main Menu">>)
    /\ notesList = NoList
    /\ journalsList = NoList
    /\ tagsList = NoList
    /\ templatesList = NoList
    /\ themesList = NoList
    /\ editor = <<>>
    /\ viewer = <<>>
    /\ statusMsg = <<"Welcome to NoteType! Press ? for help">>
    /\ currentNote = <<>>
    /\ isJournal = FALSE
    /\ showHelp = FALSE
    /\ styles = loadTheme(themeCfg)
    /\ running = TRUE
    /\ last = Event("init", "none")
    /\ call = NoCall

NextTagged ==
    \/ MenuMove(5)
    \/ MenuAllJournals({})
    \/ MenuNotes({})
    \/ MenuTags({})
    \/ TagsEnter({}, {})
    \/ \E k \in MoveKeys : TagsOther(k)
    \/ \E io \in {"none", "io"} : ListEnter(io)
    \/ \E io \in {"none", "io"} : ListDelete(io, {})
    \/ \E k \in MoveKeys : ListOther(k)
    \/ KeyBack

SpecTagged == InitTagged /\ [][NextTagged]_vars

(* ---------------- every kind of event, no failing operation -------------- *)

\* the keys of one tour of the menu, top to bottom, with one visit to each
\* view: the first template and the first theme are the ones selected
FrameKeys ==
    \/ (MenuOther("down") /\ menuList'.idx <= 7)
    \/ KeyBack
    \/ (notesList = NoList /\ MenuNotes({}))
    \/ MenuNewNote
    \/ (templatesList = NoList /\ MenuTemplates)
    \/ (tagsList = NoList /\ MenuTags({}))
    \/ (themesList = NoList /\ MenuThemes)
    \/ EditorSave("none")
    \/ \E ch \in TypedChars : EditorType(ch)
    \/ ListEnter("none")
    \/ ListNewEntry("none")
    \/ ListDelete("none", {})
    \/ \E k \in MoveKeys : ListOther(k)
    \/ ViewerEdit("none")
    \/ TagsEnter({}, {})
    \/ \E k \in MoveKeys : TagsOther(k)
    \/ \E order \in VarOrders : TemplatesEnter(order)
    \/ \E k \in MoveKeys : (TemplatesOther(k) /\ templatesList'.idx = 0)
    \/ ThemesEnter("none")
    \/ \E k \in MoveKeys : (ThemesOther(k) /\ themesList'.idx = 0)

\* the terminal reports its size before the first key, and again at any time;
\* Help and Quit are pressed in every mode; the user closes the help before
\* pressing another key
NextFrame ==
    \/ \E s \in Sizes : Resize(s[1], s[2])
    \/ (width # 0 /\ KeyHelp)
    \/ (width # 0 /\ \E k \in {"ctrl+c", "q"} : KeyQuit(k))
    \/ (width # 0 /\ ~showHelp /\ FrameKeys)

SpecFrame == Init /\ [][NextFrame]_vars

(* -------- the editor and the viewer entered one item after another ------- *)

NextTargets ==
    \/ MenuMove(4)
    \/ MenuTodayJournal("none")
    \/ MenuAllJournals({})
    \/ MenuNotes({})
    \/ MenuNewNote
    \/ MenuTemplates
    \/ \E order \in VarOrders : TemplatesEnter(order)
    \/ \E k \in MoveKeys : (TemplatesOther(k) /\ templatesList'.idx <= MaxScroll)
    \/ \E io \in {"none", "io"} : ListEnter(io)
    \/ ListNewEntry("none")
    \/ \E k \in MoveKeys : ListOther(k)
    \/ \E io \in {"none", "io"} : ViewerEdit(io)
    \/ ViewerOther
    \/ EditorSave("none")
    \/ KeyBack

SpecTargets == InitBrowse /\ [][NextTargets]_vars

(* -------- getAllTags and then findFilesByTag, over the same disk --------- *)

\* the paths a disk may hold: two notes and a journal entry
LookupPaths == {NotePath(<<"a">>), NotePath(<<"b">>), JournalPath(<<"a">>)}

LookupDisks == UNION {[P -> IndexContents] : P \in SUBSET LookupPaths}

\* the tags looked up: two that files hold and one no file holds
LookupTags == {<<"x">>, <<"y">>, <<"z">>}

\* the session as constructed, and the disk and tag of the two calls
InitLookup ==
    /\ files = (NotePath(<<"a">>) :> <<"#", "w">>)
    /\ journalDir = FALSE
    /\ themeCfg = [exists |-> FALSE, data |-> <<>>]
    /\ clock = 0
    /\ mode = "menuView"
    /\ width = 0
    /\ height = 0
    /\ menuList = NewList(MenuItems, <<"NoteType - Main Menu">>)
    /\ notesList = NoList
    /\ journalsList = NoList
    /\ tagsList = NoList
    /\ templatesList = NoList
    /\ themesList = NoList
    /\ editor = <<>>
    /\ viewer = <<>>
    /\ statusMsg = <<"Welcome to NoteType! Press ? for help">>
    /\ currentNote = <<>>
    /\ isJournal = FALSE
    /\ showHelp = FALSE
    /\ styles = loadTheme(themeCfg)
    /\ running = TRUE
    /\ last = Event("init", "none")
    /\ \E fs \in LookupDisks, jdir \in BOOLEAN, tag \in LookupTags :
           /\ (\E p \in DOMAIN fs : p.dir = "journal") => jdir
           /\ \E bad \in {{}} \cup {{p} : p \in DOMAIN fs} :
                  call = [fs |-> fs, jdir |-> jdir, bad |-> bad, tag |-> tag,
                          counts |-> <<>>, found |-> <<>>, pc |-> "getAllTags"]

\* getAllTags returns
LookupGetAllTags ==
    /\ call.pc = "getAllTags"
    /\ call' = [call EXCEPT !.counts = getAllTags(call.fs, call.jdir, call.bad),
                            !.pc = "findFilesByTag"]
    /\ UNCHANGED <<disk, clock, mode, width, height, lists, editor, viewer, statusMsg,
                   currentNote, isJournal, showHelp, styles, running, last>>

\* findFilesByTag returns, the disk being as getAllTags read it
LookupFindFilesByTag ==
    /\ call.pc = "findFilesByTag"
    /\ call' = [call EXCEPT
                   !.found = findFilesByTag(call.tag, call.fs, call.jdir, call.bad),
                   !.pc = "done"]
    /\ UNCHANGED <<disk, clock, mode, width, height, lists, editor, viewer, statusMsg,
                   currentNote, isJournal, showHelp, styles, running, last>>

NextLookup == LookupGetAllTags \/ LookupFindFilesByTag

SpecLookup == InitLookup /\ [][NextLookup]_vars

(* ------------- sessions started over any persisted theme config ---------- *)

\* the session as constructed over a config file earlier runs left: absent,
\* or holding any of the ConfigDatas
InitPalette ==
    /\ files = (NotePath(<<"a">>) :> <<"#", "w">>)
    /\ journalDir = FALSE
    /\ themeCfg \in {[exists |-> FALSE, data |-> <<>>]}
                        \cup {[exists |-> TRUE, data |-> d] : d \in ConfigDatas}
    /\ clock = 0
    /\ mode = "menuView"
    /\ width = 0
    /\ height = 0
    /\ menuList = NewList(MenuItems, <<"NoteType - Main Menu">>)
    /\ notesList = NoList
    /\ journalsList = NoList
    /\ tagsList = NoList
    /\ templatesList = NoList
    /\ themesList = NoList
    /\ editor = <<>>
    /\ viewer = <<>>
    /\ statusMsg = <<"Welcome to NoteType! Press ? for help">>
    /\ currentNote = <<>>
    /\ isJournal = FALSE
    /\ showHelp = FALSE
    /\ styles = loadTheme(themeCfg)
    /\ running = TRUE
    /\ last = Event("init", "none")
    /\ call = NoCall

SpecPalette == InitPalette /\ [][NextThemes]_vars

(* ------------------------------ properties ------------------------------ *)

\* p occurs in s
Contains(s, p) == \E i \in 1..Len(s) : HasPrefixAt(s, i, p)

\* s has the form YYYY-MM-DD
IsDateForm(s) ==
    /\ Len(s) = 10
    /\ \A i \in 1..Len(s) :
           IF i \in {5, 8} THEN s[i] = "-" ELSE s[i] \in Range(DigitChars)

\* the list the list view shows
ActiveList == IF isJournal THEN journalsList ELSE notesList

\* what reading the entry with this id returns from the disk fs
ReadEntry(fs, journal, id) ==
    fs[IF journal THEN JournalPath(id) ELSE NotePath(id)]

\* the entry with this id can be read from the disk fs
EntryExists(fs, journal, id) ==
    (IF journal THEN JournalPath(id) ELSE NotePath(id)) \in DOMAIN fs

(* C1 as stated: currentNote is non-empty in every Editor and Viewer state  *)
(* and empty in every state of any other mode.                              *)
C1_AsStated ==
    /\ mode \in {"editorView", "viewerView"} => currentNote # <<>>
    /\ mode \notin {"editorView", "viewerView"} => currentNote = <<>>

(* C1, amended: currentNote is set only when an entry is opened or created  *)
(* and is never cleared on leaving.  Every step from a list into the viewer *)
(* sets it to the file name of the selected entry; New Note (from the menu, *)
(* or New Entry in a notes list) enters the editor with currentNote empty;  *)
(* Edit keeps it; and every step that ends outside the editor and the       *)
(* viewer, Back included, leaves it as it was.                              *)
C1_CurrentNote ==
    [][ /\ (mode = "listView" /\ mode' = "viewerView")
            => currentNote' = SelectedItem(ActiveList).filename
        /\ (last'.ev = "MenuNewNote" \/ (last'.ev = "ListNewEntry" /\ ~isJournal))
            => (mode' = "editorView" /\ currentNote' = <<>>)
        /\ last'.ev = "ViewerEdit" => currentNote' = currentNote
        /\ mode' \notin {"editorView", "viewerView"} => currentNote' = currentNote
      ]_vars

\* Back out of the viewer or the editor has kept the id of the entry
C1_Witness ==
    /\ last.ev = "Back"
    /\ mode = "menuView"
    /\ currentNote # <<>>

(* C2: a successful Save in the editor keeps the mode Editor and sets a     *)
(* success status, and reading the bound id afterwards returns exactly the  *)
(* buffer; with no id bound the buffer is written under a generated id:     *)
(* "note-" and the Unix time for a note, today's date for a journal entry.  *)
C2_SaveRoundTrip ==
    [][ (last'.ev = "EditorSave" /\ last'.io = "none") =>
            /\ mode = "editorView" /\ mode' = "editorView"
            /\ editor' = editor
            /\ "saved" \in Range(statusMsg')
            /\ currentNote # <<>> =>
                   /\ EntryExists(files', isJournal, currentNote)
                   /\ ReadEntry(files', isJournal, currentNote) = editor
            /\ currentNote = <<>> =>
                   LET id == IF isJournal THEN FormatDate(TimeAt(clock))
                             ELSE <<"n", "o", "t", "e", "-">>
                                      \o Digits(TimeAt(clock).unix)
                   IN  /\ EntryExists(files', isJournal, id)
                       /\ ReadEntry(files', isJournal, id) = editor
      ]_vars

\* a non-empty buffer was saved under the bound id of a note and reads back
C2_Witness ==
    /\ last.ev = "EditorSave"
    /\ last.io = "none"
    /\ ~isJournal
    /\ currentNote # <<>>
    /\ editor # <<>>
    /\ EntryExists(files, FALSE, currentNote)
    /\ ReadEntry(files, FALSE, currentNote) = editor

(* C3 as stated: a successful Delete in a non-empty list removes the file   *)
(* of the selected entry, keeps the mode List and reloads the same list:    *)
(* the same collection and title (the tag filter of a filtered list), the   *)
(* entries it had without the deleted one, the cursor on a valid index.     *)
C3_DeleteReloadsSameList ==
    [][ (last'.ev = "ListDelete" /\ last'.io = "none" /\ files' # files) =>
            LET gone == SelectedItem(ActiveList)
                after == IF isJournal' THEN journalsList' ELSE notesList'
            IN  /\ DeletePath \notin DOMAIN files'
                /\ mode' = "listView"
                /\ isJournal' = isJournal
                /\ after.title = ActiveList.title
                /\ after.items = SelectSeq(ActiveList.items, LAMBDA it : it # gone)
                /\ after.idx = 0 \/ after.idx < Len(after.items)
      ]_vars

(* C4 as stated: Back outside the menu sets the mode to Menu and the status *)
(* to "Returned to main menu"; Back in the menu changes nothing and the     *)
(* session keeps running.                                                   *)
C4_BackToMenu ==
    [][ /\ last'.ev = "Back" =>
               (mode' = "menuView" /\ statusMsg' = <<"Returned to main menu">>)
        /\ last'.ev = "MenuEsc" =>
               (running' /\ UNCHANGED <<disk, mode, lists, editor, viewer, statusMsg,
                                        currentNote, isJournal>>)
      ]_vars

(* C5 as stated: only an explicit Quit event ends the session.              *)
C5_OnlyQuitEnds ==
    [][ /\ last'.ev = "Quit" => ~running'
        /\ (running /\ ~running') => last'.ev = "Quit"
      ]_vars

(* C6: with every file operation succeeding, Today's Journal from the menu  *)
(* enters the editor on the journal with the id today's date (YYYY-MM-DD),  *)
(* the buffer empty when today's file does not exist and preloaded with its *)
(* content when it does; a Save of the buffer then keeps the mode Editor,   *)
(* sets a status containing "saved", and the journal entry of that id reads *)
(* back as the buffer.                                                      *)
C6_TodayJournal ==
    [][ /\ (last'.ev = "MenuTodayJournal" /\ last'.io = "none") =>
               LET today == Pad4(TimeAt(clock).year) \o <<"-">>
                                \o Pad2(TimeAt(clock).month) \o <<"-">>
                                \o Pad2(TimeAt(clock).day)
               IN  /\ mode' = "editorView"
                   /\ isJournal'
                   /\ IsDateForm(currentNote')
                   /\ currentNote' = today
                   /\ editor' = IF EntryExists(files, TRUE, today)
                                THEN ReadEntry(files, TRUE, today)
                                ELSE <<>>
        /\ (last'.ev = "EditorSave" /\ last'.io = "none" /\ isJournal) =>
               /\ mode' = "editorView"
               /\ "saved" \in Range(statusMsg')
               /\ IsDateForm(currentNote)
               /\ EntryExists(files', TRUE, currentNote)
               /\ ReadEntry(files', TRUE, currentNote) = editor
      ]_vars

\* today's entry, saved before, is preloaded into the editor
C6_Witness ==
    /\ last.ev = "MenuTodayJournal"
    /\ last.io = "none"
    /\ isJournal
    /\ editor = <<"x">>
    /\ EntryExists(files, TRUE, currentNote)
    /\ ReadEntry(files, TRUE, currentNote) = <<"x">>

\* everything but the status, the mode and the record of the event
C7_Rest == <<disk, lists, editor, viewer, currentNote, isJournal, showHelp, running>>

(* C7 as stated: Search, Export and Settings selected in the menu change    *)
(* the status only, and the mode stays Menu.                                *)
C7_AsStated ==
    [][ last'.ev \in {"MenuSearch", "MenuExport", "MenuSettings"} =>
            (mode' = "menuView" /\ statusMsg' # <<>> /\ UNCHANGED C7_Rest)
      ]_vars

(* C7, amended: Export and Settings selected in the menu change the status  *)
(* only and the mode stays Menu; Search sets the status and the mode Search *)
(* and changes nothing else, no file, list, buffer or id.                   *)
C7_Placeholders ==
    [][ /\ last'.ev \in {"MenuExport", "MenuSettings"} =>
               (mode' = "menuView" /\ statusMsg' # <<>> /\ UNCHANGED C7_Rest)
        /\ last'.ev = "MenuSearch" =>
               (mode' = "searchView" /\ statusMsg' # <<>> /\ UNCHANGED C7_Rest)
      ]_vars

\* Export was selected: the status names the CLI and the mode is still Menu
C7_Witness ==
    /\ last.ev = "MenuExport"
    /\ mode = "menuView"
    /\ statusMsg = <<"Export: Use CLI - notetype export <file>">>

\* the bodies of the built-in templates with date, datetime and title filled
\* in, at every instant
FilledBuiltin ==
    [n \in Range(TemplateNames) |-> [c \in 0..MaxClock |->
        ReplaceAll(
            ReplaceAll(
                ReplaceAll(builtInTemplates[n], Placeholder(K_date),
                           FormatDate(TimeAt(c))),
                Placeholder(K_datetime), FormatDateTime(TimeAt(c))),
            Placeholder(K_title), <<"New Entry">>)]]

RenderedBuiltin(n, c) == FilledBuiltin[n][c]

(* C8 as stated: selecting a template enters the editor with the rendered   *)
(* body and no id bound until Save.                                         *)
C8_AsStated ==
    [][ (last'.ev = "TemplatesEnter" /\ HasSelection(templatesList)) =>
            /\ mode' = "editorView"
            /\ editor' = RenderedBuiltin(SelectedItem(templatesList).name, clock)
            /\ currentNote' = <<>>
      ]_vars

(* C8, amended: selecting a template enters the editor on a note with the   *)
(* rendered body and binds the id at once: the template's name, "-" and the *)
(* Unix time of the selection; a successful Save writes the buffer under    *)
(* that id.                                                                 *)
C8_TemplateBindsId ==
    [][ /\ (last'.ev = "TemplatesEnter" /\ HasSelection(templatesList)) =>
               LET n == SelectedItem(templatesList).name
               IN  /\ mode' = "editorView"
                   /\ ~isJournal'
                   /\ editor' = RenderedBuiltin(n, clock)
                   /\ currentNote' = n \o <<"-">> \o Digits(TimeAt(clock).unix)
        /\ (last'.ev = "EditorSave" /\ last'.io = "none") =>
               /\ currentNote # <<>>
               /\ EntryExists(files', FALSE, currentNote)
               /\ ReadEntry(files', FALSE, currentNote) = editor
      ]_vars

\* a template was selected and its entry saved under the id bound at selection
C8_Witness ==
    /\ last.ev = "EditorSave"
    /\ last.io = "none"
    /\ mode = "editorView"
    /\ \E i \in 1..Len(TemplateNames) :
           /\ Len(currentNote) > Len(TemplateNames[i])
           /\ SubSeq(currentNote, 1, Len(TemplateNames[i])) = TemplateNames[i]
    /\ EntryExists(files, FALSE, currentNote)

(* C9: for every built-in template, the buffer after selecting it is the    *)
(* body with every {{date}} replaced by today's date in the form            *)
(* YYYY-MM-DD, and holds no {{key}} of any key the engine substitutes.      *)
C9_NoUnresolved ==
    [][ (last'.ev = "TemplatesEnter" /\ HasSelection(templatesList)) =>
            LET n == SelectedItem(templatesList).name
                today == FormatDate(TimeAt(clock))
            IN  /\ IsDateForm(today)
                /\ \A k \in VarKeys : ~Contains(editor', Placeholder(k))
                /\ Contains(builtInTemplates[n], Placeholder(K_date))
                /\ Contains(editor', today)
                /\ editor' = FilledBuiltin[n][clock]
      ]_vars

\* the last template of the list was rendered after midnight
C9_Witness ==
    /\ last.ev = "TemplatesEnter"
    /\ mode = "editorView"
    /\ clock > 0
    /\ SelectedItem(templatesList).name = T_grateful
    /\ Contains(editor, FormatDate(TimeAt(clock)))

RECURSIVE SinglePass(_, _, _)
\* one scan of s from position i: a placeholder of a key of vars gives the
\* value of the key, and the scan goes on after the placeholder
SinglePass(s, i, v) ==
    IF i > Len(s) THEN <<>>
    ELSE IF \E k \in DOMAIN v : HasPrefixAt(s, i, Placeholder(k))
    THEN LET k == CHOOSE x \in DOMAIN v : HasPrefixAt(s, i, Placeholder(x))
         IN  v[k] \o SinglePass(s, i + Len(Placeholder(k)), v)
    ELSE <<s[i]>> \o SinglePass(s, i + 1, v)

(* C10 as stated: substituteVariables is a single literal pass: text a      *)
(* value brings in is never scanned again, and a placeholder of a key the   *)
(* map does not hold stays as it is.                                        *)
C10_SinglePass ==
    call.done => call.result = SinglePass(call.content, 1, call.vars)

\* the lowercased run of tag characters after the '#' at position h
RunAfter(s, h) == ToLower(SubSeq(s, h + 1, TagRunEnd(s, h + 1) - 1))

\* a '#' at position h with a tag character after it
HashWithRun(s, h) == s[h] = "#" /\ h + 1 <= Len(s) /\ IsTagChar(s[h + 1])

(* C12: heading exclusion.  Every tag extractTags returns is the run after  *)
(* a '#' that has no '#' immediately before it, so a run that only follows  *)
(* "##" is never returned; and extractTags("## heading #tag") is exactly    *)
(* the one tag "tag".                                                       *)
C12_HeadingExclusion ==
    call.done =>
        /\ \A i \in 1..Len(call.result) :
               \E h \in 1..Len(call.content) :
                   /\ HashWithRun(call.content, h)
                   /\ h = 1 \/ call.content[h - 1] # "#"
                   /\ RunAfter(call.content, h) = call.result[i]
        /\ call.content = HeadingContent => call.result = << <<"t", "a", "g">> >>

\* the heading example was extracted
C12_Witness ==
    /\ call.done
    /\ call.content = HeadingContent
    /\ call.result = << <<"t", "a", "g">> >>

\* the tags by the rule: the run after every '#' that stands at the start or
\* after a character that is neither '#' nor a word character
TagsByRule(s) ==
    {RunAfter(s, h) : h \in {k \in 1..Len(s) :
        /\ HashWithRun(s, k)
        /\ k = 1 \/ (s[k - 1] # "#" /\ ~IsWordChar(s[k - 1]))}}

(* C13 as stated: extractTags returns, lowercased, without duplicates and   *)
(* sorted, exactly the runs after every '#' that stands at the start of the *)
(* content or after a character that is neither '#' nor a word character,   *)
(* whatever tags were found earlier in the content.                         *)
C13_ExactTags ==
    call.done =>
        /\ Range(call.result) = TagsByRule(call.content)
        /\ \A i \in 1..(Len(call.result) - 1) :
               StrLess(call.result[i], call.result[i + 1])

\* the tags of every readable file of the disk of the call
TagsOnDisk ==
    [p \in DOMAIN call.fs \ call.bad |-> Range(extractTags(call.fs[p]))]

\* the files among those whose tags hold t
FilesTagged(tagsOf, t) == {p \in DOMAIN tagsOf : t \in tagsOf[p]}

EntryFile(journal, item) ==
    IF journal THEN JournalPath(item.filename) ELSE NotePath(item.filename)

(* C14: Enter on a tag in Tags mode, every file readable: when findFilesByTag *)
(* returns files, the mode becomes List over the notes collection and the    *)
(* entries of the list are exactly the files returned, one entry per file in *)
(* the same order; when it returns none, the mode stays Tags and the status  *)
(* says so.                                                                   *)
C14_TagFilteredList ==
    [][(last'.ev = "TagsEnter" /\ last'.io = "none" /\ HasSelection(tagsList)) =>
          LET t == SelectedItem(tagsList).tag
              found == findFilesByTag(t, files, journalDir, {})
          IN  IF Len(found) = 0
              THEN /\ mode' = "tagsView"
                   /\ statusMsg' = <<"No entries found with #">> \o t
              ELSE /\ mode' = "listView"
                   /\ isJournal' = FALSE
                   /\ Len(notesList'.items) = Len(found)
                   /\ \A i \in 1..Len(found) :
                          EntryFile(isJournal', notesList'.items[i]) = found[i]
      ]_vars

(* C16: Enter in List mode on an entry whose file can be read moves to the  *)
(* viewer, the viewer holds the content of that file on disk, currentNote   *)
(* is the id of the entry and the collection is the one of the list.        *)
C16_OpenEntry ==
    [][(/\ last'.ev = "ListEnter"
        /\ last'.io = "none"
        /\ HasSelection(ActiveList)
        /\ EntryFile(isJournal, SelectedItem(ActiveList)) \in DOMAIN files) =>
          /\ mode' = "viewerView"
          /\ viewer' = files[EntryFile(isJournal, SelectedItem(ActiveList))]
          /\ currentNote' = SelectedItem(ActiveList).filename
          /\ isJournal' = isJournal
      ]_vars

\* a journal entry another program rewrote was opened from the journal list
C16_Witness ==
    /\ last.ev = "ListEnter"
    /\ mode = "viewerView"
    /\ isJournal
    /\ currentNote = getTodayFilename(0)
    /\ viewer = <<"#", "v">>
    /\ viewer = files[JournalPath(currentNote)]

(* C17: Edit in the viewer, the file of the viewed entry readable, moves to *)
(* the editor, whose text is the content of the file on disk at that moment *)
(* (not the viewer's content, when the file changed after it was opened);   *)
(* currentNote and the collection stay.                                     *)
C17_EditRereads ==
    [][(/\ last'.ev = "ViewerEdit"
        /\ last'.io = "none"
        /\ EntryExists(files, isJournal, currentNote)) =>
          /\ mode' = "editorView"
          /\ editor' = ReadEntry(files, isJournal, currentNote)
          /\ currentNote' = currentNote
          /\ isJournal' = isJournal
      ]_vars

\* the file changed while it was viewed: the editor shows the new content
C17_Witness ==
    /\ last.ev = "ViewerEdit"
    /\ mode = "editorView"
    /\ EntryExists(files, isJournal, currentNote)
    /\ editor = ReadEntry(files, isJournal, currentNote)
    /\ editor # viewer

(* C18: Enter on a theme in Themes mode, the theme store writable: the name *)
(* is persisted, the styles are built from the palette of the theme, the   *)
(* mode is Menu, the status confirms, and loadTheme on the config file      *)
(* written returns the selected theme.                                      *)
C18_ApplyTheme ==
    [][(last'.ev = "ThemesEnter" /\ last'.io = "none" /\ HasSelection(themesList)) =>
          LET n == SelectedItem(themesList).name
          IN  /\ themeCfg'.exists
              /\ n \in Range(themeCfg'.data)
              /\ loadTheme(themeCfg') = themes[n]
              /\ styles' = themes[n]
              /\ mode' = "menuView"
              /\ statusMsg'[1] = "Applied theme: "
              /\ statusMsg'[2] = themes[n].Name
      ]_vars

\* a theme other than the default one was applied and is the one loaded
C18_Witness ==
    /\ last.ev = "ThemesEnter"
    /\ last.io = "none"
    /\ mode = "menuView"
    /\ styles = themes["nord"]
    /\ loadTheme(themeCfg) = themes["nord"]

\* the handler of this step called the disk or the theme store, and the call
\* failed
CollaboratorFailed ==
    /\ last'.io \in {"io", "mkdir"}
    /\ \/ last'.ev = "ListEnter" /\ HasSelection(ActiveList)
       \/ last'.ev = "ViewerEdit"
       \/ last'.ev = "EditorSave"
       \/ last'.ev = "ListDelete" /\ HasSelection(ActiveList)
       \/ last'.ev = "ThemesEnter" /\ HasSelection(themesList)

(* C19: when the read of Enter in a list or of Edit in the viewer, the      *)
(* directory creation or the write of Save, the removal of Delete or the    *)
(* persisting of a theme fails, the mode stays, the status is an error      *)
(* message, the editor and the viewer keep their content, the lists are not *)
(* reloaded after a failed Delete, and the styles stay after a failed theme *)
(* persist.                                                                 *)
C19_FailureKeepsState ==
    [][CollaboratorFailed =>
          /\ mode' = mode
          /\ statusMsg'[Len(statusMsg')] = ErrText
          /\ editor' = editor
          /\ viewer' = viewer
          /\ running'
          /\ last'.ev = "ListDelete" => (UNCHANGED lists /\ files' = files)
          /\ last'.ev = "ThemesEnter" => (styles' = styles /\ themeCfg' = themeCfg)
      ]_vars

\* persisting a theme other than the applied one failed
C19_Witness ==
    /\ last.ev = "ThemesEnter"
    /\ last.io \in {"io", "mkdir"}
    /\ mode = "themesView"
    /\ HasSelection(themesList)
    /\ styles # themes[SelectedItem(themesList).name]
    /\ statusMsg = <<"Error saving theme: ", ErrText>>

(* C20: no failing file operation ends the session: after every step in    *)
(* which a file operation failed, a Stat of a file the directory scan       *)
(* returned included, the session is still running.                         *)
C20_NoCrash ==
    [][last'.io # "none" => running']_vars

(* C21: no error is swallowed: when the read of today's existing journal    *)
(* entry fails, or a file cannot be read while the tags are indexed, the    *)
(* status after the step reports the error.                                 *)
C21_ErrorsReported ==
    [][(\/ /\ last'.ev = "MenuTodayJournal"
           /\ last'.io = "io"
           /\ JournalPath(getTodayFilename(clock)) \in DOMAIN files
        \/ /\ last'.ev = "MenuTags"
           /\ last'.io = "io") =>
          statusMsg'[Len(statusMsg')] = ErrText
      ]_vars

HoldsCatalogName(cfg) ==
    cfg.exists /\ \E n \in DOMAIN themes : cfg.data = <<"\"", n, "\"">>

(* C23: loadTheme always returns a theme of the catalog: the default one    *)
(* when the config file is missing, cannot be read, is not the JSON of a    *)
(* string or names no catalog entry; the catalog entry when the file holds  *)
(* the JSON of its name.                                                    *)
C23_LoadTotal ==
    (call.done /\ call.fn = "loadTheme") =>
        IF call.io = "none" /\ HoldsCatalogName(call.cfg)
        THEN call.result = themes[call.cfg.data[2]]
        ELSE call.result = themes["violet"]

\* the file holds a catalog name but cannot be read: the default is returned
C23_Witness ==
    /\ call.done
    /\ call.fn = "loadTheme"
    /\ call.io = "io"
    /\ call.cfg.data = <<"\"", "nord", "\"">>
    /\ call.result = themes["violet"]

(* C24: the journal list the session shows holds the journal entries sorted *)
(* by name in descending order, the newest first.                           *)
C24_JournalNewestFirst ==
    [][(last'.ev = "MenuAllJournals" /\ running') =>
          /\ {journalsList'.items[i].filename : i \in 1..Len(journalsList'.items)}
                 = {TrimSuffixMd(p.base) : p \in {q \in DOMAIN files : q.dir = "journal"}}
          /\ \A i, j \in 1..Len(journalsList'.items) : i < j =>
                 StrLess(journalsList'.items[j].filename,
                         journalsList'.items[i].filename)
      ]_vars

\* the call of the command fn has ended
Ended(fn) == call.done /\ call.args.fn = fn

\* the text updateFile was given to append
GivenText ==
    IF call.args.interactive THEN ReadLines(call.args.stdin) ELSE call.args.content

(* C25: updateFile on a name whose file is absent returns an error and      *)
(* creates no file; on a file that exists and with no failing write the     *)
(* new content is the old content, a blank line, and then the text (behind  *)
(* the timestamp block when one was asked for); in every case the old       *)
(* content is a prefix of the new one and no other file changes.            *)
C25_Append ==
    Ended("updateFile") =>
        LET path == NotePath(call.args.name)
            old == call.fs
            new == call.result.fs
        IN  /\ path \notin DOMAIN old =>
                   call.result.err # "none" /\ new = old
            /\ path \in DOMAIN old =>
                   /\ DOMAIN new = DOMAIN old
                   /\ \A p \in DOMAIN old \ {path} : new[p] = old[p]
                   /\ Len(new[path]) >= Len(old[path])
                   /\ SubSeq(new[path], 1, Len(old[path])) = old[path]
                   /\ call.args.io = "none" =>
                          /\ call.result.err = "none"
                          /\ HasPrefixAt(new[path], Len(old[path]) + 1, <<"\n", "\n">>)
                          /\ Len(new[path]) >= Len(old[path]) + 2 + Len(GivenText)
                          /\ SubSeq(new[path], Len(new[path]) - Len(GivenText) + 1,
                                    Len(new[path])) = GivenText
                          /\ ~call.args.addTimestamp =>
                                 new[path] = old[path] \o <<"\n", "\n">> \o GivenText

\* a text was appended to a file that had content
C25_Witness ==
    /\ Ended("updateFile")
    /\ call.args.name = <<"a">>
    /\ NotePath(<<"a">>) \in DOMAIN call.fs
    /\ call.fs[NotePath(<<"a">>)] = <<"o">>
    /\ call.result.fs[NotePath(<<"a">>)] = <<"o", "\n", "\n", "t">>

\* the files the call created, removed or changed
Touched ==
    {p \in DOMAIN call.fs \cup DOMAIN call.result.fs :
        \/ p \notin DOMAIN call.fs
        \/ p \notin DOMAIN call.result.fs
        \/ call.fs[p] # call.result.fs[p]}

(* C26: a command given the name X touches no file but X.md of the working  *)
(* directory, and delete and remove of a name whose file X.md exists remove *)
(* that file; the suffix is added by the command, never read from the name. *)
C26_FileNaming ==
    (call.done /\ call.args.fn \in {"updateFile", "deleteNote", "removeFile",
                                   "createAndAddFile", "applyTemplate"}) =>
        /\ Touched \subseteq {NotePath(call.args.name)}
        /\ (/\ call.args.fn \in {"deleteNote", "removeFile"}
            /\ call.args.io = "none"
            /\ NotePath(call.args.name) \in DOMAIN call.fs) =>
               NotePath(call.args.name) \notin DOMAIN call.result.fs

(* C27: delete and remove of a name that has no file, or whose file cannot  *)
(* be removed, report the error and do not report success.                  *)
C27_DeleteAbsentFails ==
    (/\ call.done
     /\ call.args.fn \in {"deleteNote", "removeFile"}
     /\ \/ call.args.io # "none"
        \/ /\ NotePath(call.args.name) \notin DOMAIN call.fs
           /\ RawPath(call.args.name) \notin DOMAIN call.fs) =>
        /\ call.result.fs = call.fs
        /\ ErrText \in Range(call.result.out)
        /\ Range(call.result.out) \cap {"deleted entry succesfully", "has been removed"}
               = {}

\* what applyTemplate renders from a template body in this call
RenderedBy(body) ==
    substituteVariables(body, TemplateVars(clock, <<"T">>), call.args.order)

(* C28: applyTemplate of a name that is neither a built-in template nor a   *)
(* readable custom template file returns the template-not-found error and   *)
(* leaves the disk as it was; a built-in name is rendered from the built-in *)
(* body, also when a custom template file has that name; a custom template  *)
(* file is rendered only for a name no built-in has.                        *)
C28_TemplateResolution ==
    Ended("applyTemplate") =>
        LET name == call.args.template
            custom == TemplatePath(name)
            out == NotePath(call.args.name)
        IN  IF name \in DOMAIN builtInTemplates
            THEN call.args.io # "write" =>
                     /\ call.result.err = "none"
                     /\ call.result.fs[out] = RenderedBy(builtInTemplates[name])
            ELSE IF custom \in DOMAIN call.fs /\ call.args.io # "read"
            THEN call.args.io # "write" =>
                     /\ call.result.err = "none"
                     /\ call.result.fs[out] = RenderedBy(call.fs[custom])
            ELSE /\ call.result.err = "template not found"
                 /\ call.result.fs = call.fs

\* a built-in name was rendered while a custom template file had that name
C28_Witness ==
    /\ Ended("applyTemplate")
    /\ call.args.template = T_daily
    /\ call.args.io = "none"
    /\ TemplatePath(T_daily) \in DOMAIN call.fs
    /\ call.result.err = "none"
    /\ call.result.fs[NotePath(call.args.name)] # RenderedBy(call.fs[TemplatePath(T_daily)])

\* the cursor of the list l is on one of its items, or 0 when it has none
CursorInRange(l) ==
    IF l.items = <<>> THEN l.idx = 0 ELSE l.idx \in 0..(Len(l.items) - 1)

(* C29: in every reachable state, after cursor keys, after Delete and the   *)
(* reload it makes, and after every entry into a list, the cursor of the    *)
(* list shown is on one of its items, and is 0 when the list has none.      *)
C29_CursorInRange ==
    /\ CursorInRange(ActiveList)
    /\ CursorInRange(notesList)
    /\ CursorInRange(journalsList)

\* Delete on the second of two notes: the reloaded list has one item
C29_Witness ==
    /\ last.ev = "ListDelete"
    /\ last.io = "none"
    /\ mode = "listView"
    /\ ~isJournal
    /\ Len(notesList.items) = 1
    /\ notesList.items[1].filename = <<"a">>
    /\ notesList.idx = 0

(* C30: in every mode the Help key flips showHelp and changes nothing else: *)
(* mode, status, editor, viewer, lists, files and every other field stay;   *)
(* so a second Help key restores the state before the first.                *)
C30_HelpFlipsOnly ==
    [][last'.ev = "Help" =>
          /\ showHelp \in BOOLEAN
          /\ showHelp' = ~showHelp
          /\ UNCHANGED <<disk, clock, mode, width, height, lists, editor, viewer,
                         statusMsg, currentNote, isJournal, styles, running, call>>
      ]_vars

\* the help was shown and hidden again in the tags view
C30_Witness ==
    /\ last.ev = "Help"
    /\ ~showHelp
    /\ mode = "tagsView"

\* the items are the entries of the index, each once with its count, ordered by
\* count descending and, among equal counts, by tag ascending
SortedIndex(items, index) ==
    /\ Len(items) = Cardinality(DOMAIN index)
    /\ {items[i].tag : i \in 1..Len(items)} = DOMAIN index
    /\ \A i \in 1..Len(items) : items[i].count = index[items[i].tag]
    /\ \A i, j \in 1..Len(items) :
           i < j => \/ items[i].count > items[j].count
                    \/ /\ items[i].count = items[j].count
                       /\ StrLess(items[i].tag, items[j].tag)

\* C31: Select on the menu's Tags entry shows the Tags view when the tag index
\* of the files it could read is not empty, listing every entry of the index
\* once, by count descending and then tag ascending; with an empty index the
\* mode stays Menu, the list is kept and a status message is set
C31_TagsView ==
    [][last'.ev = "MenuTags" =>
          \E bad \in BadSets :
              /\ (bad = {}) <=> (last'.io = "none")
              /\ LET index == getAllTags(files, journalDir, bad)
                 IN  IF DOMAIN index = {}
                     THEN /\ mode' = "menuView"
                          /\ tagsList' = tagsList
                          /\ statusMsg' = <<"No tags found. Add #tags to your notes!">>
                     ELSE /\ mode' = "tagsView"
                          /\ SortedIndex(tagsList'.items, index)]_vars

\* the Tags view shows two tags of different counts, the more frequent one first
\* although its name sorts last
C31_Witness ==
    /\ last.ev = "MenuTags"
    /\ mode = "tagsView"
    /\ Len(tagsList.items) = 2
    /\ tagsList.items[1].count > tagsList.items[2].count
    /\ StrLess(tagsList.items[2].tag, tagsList.items[1].tag)

\* the list the List view shows was built from the disk fs: the journal entries,
\* the notes, or the files carrying one of the indexed tags
BuiltFrom(l, journal, fs, jdir) ==
    /\ l.idx = 0
    /\ IF journal
       THEN l.items = NoteItems(Glob(fs, "journal"))
       ELSE \/ l.items = NoteItems(Glob(fs, "cwd"))
            \/ \E t \in DOMAIN getAllTags(fs, jdir, {}) :
                   l.items = NoteItems(findFilesByTag(t, fs, jdir, {}))

\* C32: every step that enters List, or reloads it after a Delete, assigns the
\* displayed list (journalsList when isJournal, else notesList) from the disk
\* as the step leaves it; every other step that stays in List keeps isJournal
\* and the items of that list; so no List state shows a list of an earlier visit
C32_ListBuiltOnEntry ==
    [][mode' = "listView" =>
          IF mode # "listView" \/ files' # files
          THEN BuiltFrom(IF isJournal' THEN journalsList' ELSE notesList',
                         isJournal', files', journalDir')
          ELSE /\ isJournal' = isJournal
               /\ (IF isJournal' THEN journalsList' ELSE notesList').items
                      = ActiveList.items]_vars

\* the notes list is entered after a new note was saved, the journal list having
\* been shown on an earlier visit
C32_Witness ==
    /\ mode = "listView"
    /\ ~isJournal
    /\ last.ev = "MenuNotes"
    /\ Len(notesList.items) = 2
    /\ journalsList.items # <<>>

\* C33: in Editor mode a printable key is inserted into the editor buffer and
\* neither ends the session, nor flips showHelp, nor changes the mode, "q" and
\* "?" included
C33_EditorGetsPrintables ==
    [][last'.ev = "EditorKey" =>
          /\ editor' = Append(editor, last'.key)
          /\ running'
          /\ showHelp' = showHelp
          /\ mode' = mode]_vars

\* the list shown is the one showEntriesWithTag built for a tag
TagFiltered ==
    /\ mode = "listView"
    /\ ~isJournal
    /\ notesList.title # <<>>
    /\ Head(notesList.title) = "Entries tagged with #"

\* the files findFilesByTag returns for the tag of the tag-filtered list
FilteredFiles == findFilesByTag(Tail(notesList.title), files, journalDir, {})

\* C34: in a tag-filtered list the selected entry stands for the file
\* findFilesByTag returned at its position: with no failure, Select shows the
\* content of that path and Delete removes that file and no other, also for a
\* journal entry and for a journal entry that shares its base name with a note
C34_FilteredEntryIsMatch ==
    [][(/\ TagFiltered
        /\ last'.io = "none"
        /\ Len(FilteredFiles) = Len(notesList.items)
        /\ HasSelection(notesList)) =>
          LET target == FilteredFiles[notesList.idx + 1]
          IN  /\ last'.ev = "ListEnter" =>
                     (mode' = "viewerView" /\ viewer' = files[target])
              /\ last'.ev = "ListDelete" => files' = RemoveFile(files, target)
      ]_vars

\* the editor was entered through New Note and a Save of this visit succeeded
SavedIdlessNote ==
    /\ mode = "editorView"
    /\ ~isJournal
    /\ currentNote = <<>>
    /\ statusMsg = <<"Note ", "saved", " successfully! Press Esc to go back">>

\* C35: in an editor visit entered through New Note, a successful Save that
\* follows a successful Save of the same visit writes to the file the earlier
\* one wrote, so it creates no further file; and the first successful Save of
\* the visit creates its file, it overwrites none that was there before
C35_SaveIdempotent ==
    [][(/\ last'.ev = "EditorSave"
        /\ last'.io = "none"
        /\ mode = "editorView"
        /\ ~isJournal
        /\ currentNote = <<>>) =>
          IF SavedIdlessNote
          THEN DOMAIN files' = DOMAIN files
          ELSE SavePath \notin DOMAIN files]_vars

\* the events that may write: Save in the editor, Delete in a list, Select in
\* the themes list
WritingEvents == {"EditorSave", "ListDelete", "ThemesEnter"}

Target == <<isJournal, currentNote>>

\* C37: every step that ends in the editor or the viewer either opens or
\* creates an item and sets (isJournal, currentNote) to that item's pair, or
\* comes from the editor or the viewer (Edit, Save, scrolling) and keeps the
\* pair: no pair of an earlier visit is the one Save writes or Edit reads
C37_NoStaleTarget ==
    [][mode' \in {"editorView", "viewerView"} =>
          LET today == <<TRUE, getTodayFilename(clock)>>
              fresh == <<FALSE, <<>> >>
          IN  CASE last'.ev = "MenuTodayJournal" -> Target' = today
                [] last'.ev = "MenuNewNote" -> Target' = fresh
                [] last'.ev = "ListNewEntry" ->
                       Target' = IF isJournal THEN today ELSE fresh
                [] last'.ev = "TemplatesEnter" ->
                       Target' = <<FALSE, SelectedItem(templatesList).name \o <<"-">>
                                              \o Digits(TimeAt(clock).unix)>>
                [] last'.ev = "ListEnter" /\ mode' = "viewerView" ->
                       Target' = <<isJournal, SelectedItem(ActiveList).filename>>
                [] OTHER -> /\ mode \in {"editorView", "viewerView"}
                            /\ Target' = Target]_vars

\* New Note from the menu, after a journal entry was the item of the editor or
\* the viewer
C37_Witness ==
    /\ last.ev = "MenuNewNote"
    /\ mode = "editorView"
    /\ ~isJournal
    /\ currentNote = <<>>
    /\ journalsList.items # <<>>
    /\ viewer = files[JournalPath(getTodayFilename(0))]

\* the count the index gives a tag, an absent key counting as 0
CountOf(counts, t) == IF t \in DOMAIN counts THEN counts[t] ELSE 0

C39_SubstDeterministic ==
    call.done =>
        \A o \in Orders(DOMAIN call.vars) :
            substituteVariables(call.content, call.vars, o) = call.result

====
